---- MODULE Spec2Model ----
(***************************************************************************)
(* Layered AI Chatbot: the decision engine, the learning layer and the     *)
(* message pipeline, as state machines.                                    *)
(*                                                                         *)
(* Texts are TLA+ strings (TLC treats them as character sequences).        *)
(* Floats that the code only compares with decimal literals are integers   *)
(* in hundredths (0.7 is 70); quotients of two counts are kept exact as    *)
(* <<numerator, denominator>> pairs.  Python's None is the string "None"   *)
(* where the other values are strings, and a tagged record for dicts.      *)
(***************************************************************************)
EXTENDS Integers, Sequences, FiniteSets, TLC

VARIABLES
    pc,             \* the operation that completed last ("init" before any)
    decide_args,    \* arguments of the last decide_response_strategy call
    decision,       \* the dict that call returned
    learning_data,  \* LearningLayer.learning_data
    learning_file,  \* data/learning_data.json as last written
    today,          \* the calendar day of datetime.now(), as a day number
    learn_args,     \* arguments of the last learn_from_conversation call
    learn_calls,    \* learn_from_conversation calls made so far
    session,        \* the kind of session the callers hold with the service
    evicted_pairs,  \* history: (pattern, intent) pairs whose record was evicted
    patterns_given, \* history: the patterns each intent was given so far
    chat_data,      \* StorageLayer.chat_data
    chat_file,      \* data/chat_history.json as last written
    analytics_data, \* StorageLayer.analytics_data
    analytics_file, \* data/analytics.json as last written
    context_memory, \* NLPLayer.context_memory
    turn,           \* the last process_message call: its inputs and its course
    response,       \* the dict that call returned
    turns,          \* process_message calls made so far
    restarts,       \* restarts of the serving process so far
    report,         \* the last query made of the layers and what it returned
    workers         \* the request threads of the API server: where each is in
                    \* its process_message call and the value it has loaded

decide_vars == <<decide_args, decision>>
learn_vars == <<learning_data, learning_file, today, learn_args, learn_calls,
                session, evicted_pairs, patterns_given>>
turn_vars == <<chat_data, chat_file, analytics_data, analytics_file, context_memory,
               turn, response, turns, restarts, report, workers>>
vars == <<pc, decide_vars, learn_vars, turn_vars>>

None == "None"

\* no decide_response_strategy call is in progress
IdleDecide ==
    /\ decide_args = [text |-> ""]
    /\ decision = [strategy |-> None]

(***************************************************************************)
(* Python string helpers                                                   *)
(***************************************************************************)
UpperChars == "ABCDEFGHIJKLMNOPQRSTUVWXYZ"
LowerChars == "abcdefghijklmnopqrstuvwxyz"

UpperSet == {SubSeq(UpperChars, i, i) : i \in 1..Len(UpperChars)}

\* str.lower() on one character
LowerChar(c) ==
    IF c \in UpperSet
    THEN LET i == CHOOSE j \in 1..Len(UpperChars) : SubSeq(UpperChars, j, j) = c
         IN  SubSeq(LowerChars, i, i)
    ELSE c

RECURSIVE Lower(_)
\* str.lower()
Lower(s) == IF s = "" THEN "" ELSE LowerChar(Head(s)) \o Lower(Tail(s))

RECURSIVE LStrip(_)
LStrip(s) == IF s # "" /\ Head(s) = " " THEN LStrip(Tail(s)) ELSE s

RECURSIVE RStrip(_)
RStrip(s) ==
    IF s # "" /\ SubSeq(s, Len(s), Len(s)) = " "
    THEN RStrip(SubSeq(s, 1, Len(s) - 1))
    ELSE s

\* str.strip()
Strip(s) == RStrip(LStrip(s))

RECURSIVE TakeWord(_)
\* the longest prefix of s without a blank
TakeWord(s) ==
    IF s = "" \/ Head(s) = " " THEN "" ELSE Head(s) \o TakeWord(Tail(s))

RECURSIVE Split(_)
\* str.split(): the words between runs of whitespace
Split(s) ==
    LET t == LStrip(s)
        w == TakeWord(t)
    IN  IF t = "" THEN <<>>
        ELSE <<w>> \o Split(SubSeq(t, Len(w) + 1, Len(t)))

\* Python's `sub in s` on strings
Contains(s, sub) ==
    \E i \in 1..(Len(s) - Len(sub) + 1) : SubSeq(s, i, i + Len(sub) - 1) = sub

\* set(list)
SeqToSet(q) == {q[i] : i \in 1..Len(q)}

\* p/q > r/s and p/q = r/s on exact quotients (q, s > 0)
RatGT(a, b) == a[1] * b[2] > b[1] * a[2]
RatEQ(a, b) == a[1] * b[2] = b[1] * a[2]

(***************************************************************************)
(* The texts and the environments the model is run on                      *)
(***************************************************************************)
\* the texts decide_response_strategy is called with on its own
DecideTexts == {
    "hello", "pm india", " PM India ", "what is data science", "Data Science",
    "who is rahul", "since when", "what is deep learning", "tell me more",
    "data science course", "inc leader now", "python", "leader inc",
    "pm  india", "", "how are you today" }

\* the messages of the learning sessions
FreeMessages == {"very very good answer", "what is data science"}
LongMessages == <<"what is data science", "tell me about machine learning",
                  "very very good answer", "explain artificial intelligence please">>

\* the users and the messages of the turns
Users == {"u1", "u2"}
TurnMessages == {"hello", "pm india", "what is deep learning", "python"}

\* every text of the model
Texts == DecideTexts \cup FreeMessages \cup SeqToSet(LongMessages) \cup TurnMessages

\* an environment in which the intent model raises, TextBlob reports a
\* neutral polarity, both generation services time out and the disk works
BaseEnv ==
    [ml |-> [raised |-> TRUE],
     textblob |-> [raised |-> FALSE, polarity |-> 0],
     api |-> [openrouter_key |-> TRUE, openrouter |-> None,
              huggingface_key |-> TRUE, huggingface |-> None],
     draws |-> <<0, 0>>,
     disk |-> "ok",
     days |-> 0]

\* the environments of a turn: no API key at all, an empty completion and
\* a Hugging Face answer, an OpenRouter answer, a failing sentiment scorer,
\* an unsure intent model
Environments ==
    { BaseEnv,
      [BaseEnv EXCEPT !.api = [openrouter_key |-> FALSE, openrouter |-> None,
                               huggingface_key |-> FALSE, huggingface |-> None],
                      !.textblob = [raised |-> FALSE, polarity |-> -50],
                      !.draws = <<1, 2>>,
                      !.days = 1],
      [BaseEnv EXCEPT !.api = [openrouter_key |-> TRUE, openrouter |-> "",
                               huggingface_key |-> TRUE,
                               huggingface |-> "I am doing well, thank you."],
                      !.textblob = [raised |-> FALSE, polarity |-> 50],
                      !.draws = <<2, 1>>,
                      !.disk = "full"],
      [BaseEnv EXCEPT !.api = [openrouter_key |-> TRUE,
                               openrouter |-> "I am fine. How can I help?",
                               huggingface_key |-> FALSE, huggingface |-> None],
                      !.ml = [raised |-> FALSE, intent |-> "compliment", confidence |-> 80],
                      !.disk = "readonly"],
      [BaseEnv EXCEPT !.textblob = [raised |-> TRUE]],
      [BaseEnv EXCEPT !.ml = [raised |-> FALSE, intent |-> "question", confidence |-> 65],
                      !.api = [openrouter_key |-> TRUE, openrouter |-> None,
                               huggingface_key |-> FALSE, huggingface |-> None]] }

(***************************************************************************)
(* backend/config.py                                                       *)
(***************************************************************************)
\* Config.FAQ_DATABASE, in insertion order: <<key, answer>>
FAQ_DATABASE == <<
    <<"what is pm of india", "The Prime Minister of India is Narendra Modi, who has been serving since May 2014.">>,
    <<"who is prime minister", "The current Prime Minister of India is Narendra Modi.">>,
    <<"pm india", "Narendra Modi is the Prime Minister of India.">>,
    <<"what is data science", "Data science is an interdisciplinary field that uses scientific methods, processes, algorithms, and systems to extract knowledge and insights from structured and unstructured data. It combines statistics, mathematics, programming, and domain expertise.">>,
    <<"data science", "Data science involves collecting, cleaning, analyzing, and interpreting large amounts of data to discover patterns and insights that can inform business decisions. It uses tools like Python, R, SQL, and machine learning algorithms.">>,
    <<"machine learning", "Machine Learning is a subset of AI that enables computers to learn from data without explicit programming. It includes supervised learning (classification, regression), unsupervised learning (clustering), and reinforcement learning.">>,
    <<"artificial intelligence", "Artificial Intelligence (AI) is the simulation of human intelligence in machines. It encompasses machine learning, natural language processing, computer vision, robotics, and expert systems.">>,
    <<"python programming", "Python is a versatile, high-level programming language known for its simplicity and readability. It's extensively used in data science, web development, automation, and AI development.">>,
    <<"best ai model", "Some of the best AI models include GPT-4, Claude, Gemini, and LLaMA. Each excels in different areas like reasoning, coding, or creativity.">>,
    <<"ai model", "Popular AI models include OpenAI GPT series, Google Gemini, Anthropic Claude, and Meta LLaMA.">>,
    <<"leader of inc", "The current president of the Indian National Congress (INC) is Mallikarjun Kharge, elected in October 2022.">>,
    <<"inc leader", "Mallikarjun Kharge is the current president of the Indian National Congress.">>,
    <<"rahul gandhi", "Rahul Gandhi is an Indian politician and member of the Indian National Congress. He served as Congress President from 2017-2019 and is currently a Member of Parliament.">>,
    <<"rahul gandhi details", "Rahul Gandhi is the son of Sonia Gandhi and late Rajiv Gandhi. He represents Wayanad constituency in Lok Sabha and is a prominent opposition leader in India.">>,
    <<"what time is it", "I cannot access real-time information, but you can check your device clock.">>,
    <<"how are you", "I am functioning well and ready to help you!">>,
    <<"what can you do", "I can answer questions, provide information, and have conversations with you.">> >>

(***************************************************************************)
(* backend/decision_engine.py                                              *)
(***************************************************************************)
\* key_terms of check_faq, in insertion order: <<term, answer>>
key_terms == <<
    <<"ai model", "Some of the best AI models include GPT-4, Claude, Gemini, and LLaMA. Each excels in different areas like reasoning, coding, or creativity.">>,
    <<"inc", "The current president of the Indian National Congress (INC) is Mallikarjun Kharge, elected in October 2022.">>,
    <<"rahul", "Rahul Gandhi is an Indian politician and member of the Indian National Congress. He served as Congress President from 2017-2019 and is currently a Member of Parliament.">>,
    <<"gandhi", "Rahul Gandhi is the son of Sonia Gandhi and late Rajiv Gandhi. He represents Wayanad constituency in Lok Sabha and is a prominent opposition leader in India.">> >>

\* set(s.split()) of every FAQ key and every normalised message, computed once
KnownWordSets ==
    [s \in {FAQ_DATABASE[i][1] : i \in 1..Len(FAQ_DATABASE)}
            \cup {Strip(Lower(t)) : t \in DecideTexts} |-> SeqToSet(Split(s))]

\* set(text.split())
WordSet(text) ==
    IF text \in DOMAIN KnownWordSets THEN KnownWordSets[text] ELSE SeqToSet(Split(text))

\* len(intersection) / len(union) of two word sets, 0.0 when one is empty
Jaccard(words1, words2) ==
    IF words1 = {} \/ words2 = {} THEN <<0, 1>>
    ELSE <<Cardinality(words1 \cap words2), Cardinality(words1 \cup words2)>>

\* DecisionEngine._calculate_similarity: <<|intersection|, |union|>>, or 0.0
calculate_similarity(text1, text2) == Jaccard(WordSet(text1), WordSet(text2))

\* one turn of the loop of check_faq: the answer whose key has the given
\* similarity replaces the best one when it beats it and 0.5
Better(best, answer, similarity) ==
    IF RatGT(similarity, best[2]) /\ RatGT(similarity, <<50, 100>>)
    THEN <<answer, similarity>>
    ELSE best

RECURSIVE BestMatch(_, _, _)
\* the loop of check_faq over FAQ_DATABASE from entry i on; best is
\* <<best_match, best_score>>
BestMatch(text_lower, i, best) ==
    IF i > Len(FAQ_DATABASE) THEN best
    ELSE BestMatch(text_lower, i + 1,
                   Better(best, FAQ_DATABASE[i][2],
                          calculate_similarity(text_lower, FAQ_DATABASE[i][1])))

\* a Python string or None used as a condition
Truthy(s) == s # None /\ s # ""

\* the three lookups of check_faq on the normalised text: the direct
\* match, the best similar key (best), then the key terms
faq_lookup(text_lower, best) ==
    LET direct == {i \in 1..Len(FAQ_DATABASE) : FAQ_DATABASE[i][1] = text_lower}
        terms == {i \in 1..Len(key_terms) : Contains(text_lower, key_terms[i][1])}
    IN  IF direct # {}
        THEN <<FAQ_DATABASE[CHOOSE i \in direct : TRUE][2], <<95, 100>> >>
        ELSE IF Truthy(best[1]) THEN best
        ELSE IF terms # {}
        THEN <<key_terms[CHOOSE i \in terms : \A j \in terms : i <= j][2], <<80, 100>> >>
        ELSE <<None, <<0, 1>> >>

\* check_faq on a text already normalised
check_faq_normalised(text_lower) ==
    faq_lookup(text_lower, BestMatch(text_lower, 1, <<None, <<0, 1>> >>))

\* check_faq comparing the untrimmed text with the keys
check_faq_NoStrip(text) == check_faq_normalised(Lower(text))

\* DecisionEngine.check_faq: <<answer or None, confidence>>
check_faq(text) == check_faq_normalised(Strip(Lower(text)))

\* check_faq on every text of the model, computed once
check_faq_table == [text \in Texts |-> check_faq(text)]

\* check_faq, looked up: every text of the model is in the table
check_faq_cached(text) == check_faq_table[text]

\* should_use_rule_based with the low-confidence bound included
should_use_rule_based_Inclusive(intent, confidence) ==
    \/ intent \in {"greeting", "goodbye", "compliment"} /\ confidence > 70
    \/ confidence <= 40

\* DecisionEngine.should_use_rule_based
should_use_rule_based(intent, confidence) ==
    \/ intent \in {"greeting", "goodbye", "compliment"} /\ confidence > 70
    \/ confidence < 40

\* dict.get(key, default) on a dict modelled as a record
Get(d, key, default) == IF key \in DOMAIN d THEN d[key] ELSE default

\* a dict or None used as a condition: None and {} are false
DictTruthy(d) == d.tag = "dict" /\ DOMAIN d # {"tag"}

\* should_use_generative_ai asking for more than 3 turns of history
should_use_generative_ai_LongerHistory(intent, confidence, context) ==
    \/ intent \in {"question", "general", "help"} /\ confidence > 60
    \/ DictTruthy(context) /\ Len(Get(context, "history", <<>>)) > 3

\* should_use_generative_ai without 'question' among the suitable intents
should_use_generative_ai_NoQuestion(intent, confidence, context) ==
    \/ intent \in {"general", "help"} /\ confidence > 60
    \/ DictTruthy(context) /\ Len(Get(context, "history", <<>>)) > 2

\* DecisionEngine.should_use_generative_ai
should_use_generative_ai(intent, confidence, context) ==
    \/ intent \in {"question", "general", "help"} /\ confidence > 60
    \/ DictTruthy(context) /\ Len(Get(context, "history", <<>>)) > 2

\* DecisionEngine.get_fallback_strategy
get_fallback_strategy(intent, sentiment) ==
    IF \/ Get(sentiment, "sentiment", None) = "negative"
       \/ "anger" \in Get(sentiment, "emotions", {})
    THEN "empathetic_fallback"
    ELSE IF intent = "question" THEN "question_fallback"
    ELSE "friendly_fallback"

\* the last step reporting the fallback kind as the strategy
FallbackDecision_KindAsStrategy(confidence, fallback_strategy) ==
    [strategy |-> fallback_strategy, confidence |-> <<confidence, 100>>,
     reasoning |-> "Using fallback strategy: " \o fallback_strategy,
     fallback_needed |-> TRUE, fallback_type |-> fallback_strategy]

\* the dict built in the last step of decide_response_strategy
FallbackDecision(confidence, fallback_strategy) ==
    [strategy |-> "fallback", confidence |-> <<confidence, 100>>,
     reasoning |-> "Using fallback strategy: " \o fallback_strategy,
     fallback_needed |-> TRUE, fallback_type |-> fallback_strategy]

\* decide_response_strategy trying the rule-based step before the FAQ
decide_response_strategy_RuleFirst(text, intent, confidence, sentiment, context) ==
    LET faq == check_faq_cached(text)
    IN  IF should_use_rule_based(intent, confidence)
        THEN [strategy |-> "rule_based", confidence |-> <<confidence, 100>>,
              reasoning |-> "Rule-based suitable for " \o intent,
              fallback_needed |-> FALSE]
        ELSE IF Truthy(faq[1])
        THEN [strategy |-> "faq", confidence |-> faq[2],
              reasoning |-> "Direct FAQ match found",
              fallback_needed |-> FALSE, faq_answer |-> faq[1]]
        ELSE IF should_use_generative_ai(intent, confidence, context)
        THEN [strategy |-> "generative_ai", confidence |-> <<confidence, 100>>,
              reasoning |-> "Complex query suitable for AI: " \o intent,
              fallback_needed |-> FALSE]
        ELSE FallbackDecision(confidence, get_fallback_strategy(intent, sentiment))

\* DecisionEngine.decide_response_strategy
decide_response_strategy(text, intent, confidence, sentiment, context) ==
    LET faq == check_faq_cached(text)
    IN  IF Truthy(faq[1])
        THEN [strategy |-> "faq", confidence |-> faq[2],
              reasoning |-> "Direct FAQ match found",
              fallback_needed |-> FALSE, faq_answer |-> faq[1]]
        ELSE IF should_use_rule_based(intent, confidence)
        THEN [strategy |-> "rule_based", confidence |-> <<confidence, 100>>,
              reasoning |-> "Rule-based suitable for " \o intent,
              fallback_needed |-> FALSE]
        ELSE IF should_use_generative_ai(intent, confidence, context)
        THEN [strategy |-> "generative_ai", confidence |-> <<confidence, 100>>,
              reasoning |-> "Complex query suitable for AI: " \o intent,
              fallback_needed |-> FALSE]
        ELSE FallbackDecision(confidence, get_fallback_strategy(intent, sentiment))

(***************************************************************************)
(* backend/learning_layer.py                                               *)
(***************************************************************************)
MAX_SUCCESSFUL_PATTERNS == 50
MAX_FAILED_PATTERNS == 20
MAX_FEEDBACK == 500
MAX_DISCOVERIES == 200
MAX_PERFORMANCE_DAYS == 90

\* an empty dict
EmptyDict == [k \in {} |-> None]

\* d[key] = value on a dict
DictSet(d, key, value) ==
    [k \in DOMAIN d \cup {key} |-> IF k = key THEN value ELSE d[k]]

\* lst[-n:] for n >= 0 (lst[-0:] is the whole list)
LastN(lst, n) ==
    IF n = 0 \/ Len(lst) <= n THEN lst ELSE SubSeq(lst, Len(lst) - n + 1, Len(lst))

\* lst[:n]
FirstN(lst, n) == IF Len(lst) <= n THEN lst ELSE SubSeq(lst, 1, n)

RECURSIVE LongerThan(_, _)
\* [x for x in lst if len(x) > n]
LongerThan(lst, n) ==
    IF lst = <<>> THEN <<>>
    ELSE (IF Len(Head(lst)) > n THEN <<Head(lst)>> ELSE <<>>) \o LongerThan(Tail(lst), n)

\* the corpus _load_learning_data falls back to
EmptyLearningData ==
    [intent_improvements |-> EmptyDict,
     response_feedback |-> <<>>,
     pattern_discoveries |-> <<>>,
     optimization_suggestions |-> <<>>,
     model_performance_history |-> <<>>]

\* the patterns _extract_patterns takes from the words of a text
word_patterns(words) ==
    LET bigrams == [i \in 1..(Len(words) - 1) |-> words[i] \o " " \o words[i + 1]]
        trigrams == [i \in 1..(Len(words) - 2) |->
                        words[i] \o " " \o words[i + 1] \o " " \o words[i + 2]]
    IN  FirstN(LongerThan(words, 3) \o LongerThan(bigrams, 6)
                   \o LongerThan(trigrams, 10), 10)

\* LearningLayer._extract_patterns
extract_patterns(text) == word_patterns(Split(Lower(text)))

\* _extract_patterns on every text of the model, computed once
extract_patterns_table == [text \in Texts |-> extract_patterns(text)]

\* _extract_patterns, looked up: every text of the model is in the table
extract_patterns_cached(text) == extract_patterns_table[text]

\* _learn_intent_patterns keeping one successful pattern more than 50
learn_intent_patterns_CutAfter(ld, user_message, intent, success) ==
    LET known == ld.intent_improvements
        fresh == [successful_patterns |-> <<>>, failed_patterns |-> <<>>,
                  improvement_suggestions |-> <<>>]
        intent_data == IF intent \in DOMAIN known THEN known[intent] ELSE fresh
        patterns == extract_patterns_cached(user_message)
        successful == LastN(IF success THEN intent_data.successful_patterns \o patterns
                            ELSE intent_data.successful_patterns, MAX_SUCCESSFUL_PATTERNS + 1)
        failed == LastN(IF success THEN intent_data.failed_patterns
                        ELSE intent_data.failed_patterns \o patterns, MAX_FAILED_PATTERNS)
        suggestion == "Intent '" \o intent \o "' has " \o ToString(Len(failed))
                        \o " failed patterns. Consider retraining with more examples."
        suggestions ==
            IF Len(failed) > 5 /\ suggestion \notin SeqToSet(intent_data.improvement_suggestions)
            THEN Append(intent_data.improvement_suggestions, suggestion)
            ELSE intent_data.improvement_suggestions
    IN  [ld EXCEPT !.intent_improvements = DictSet(known, intent,
            [successful_patterns |-> successful, failed_patterns |-> failed,
             improvement_suggestions |-> suggestions])]

\* _learn_intent_patterns appending to and cutting both lists at 50
learn_intent_patterns_SameCut(ld, user_message, intent, success) ==
    LET known == ld.intent_improvements
        fresh == [successful_patterns |-> <<>>, failed_patterns |-> <<>>,
                  improvement_suggestions |-> <<>>]
        intent_data == IF intent \in DOMAIN known THEN known[intent] ELSE fresh
        patterns == extract_patterns_cached(user_message)
        successful == LastN(IF success THEN intent_data.successful_patterns \o patterns
                            ELSE intent_data.successful_patterns, MAX_SUCCESSFUL_PATTERNS)
        failed == LastN(IF success THEN intent_data.failed_patterns
                        ELSE intent_data.failed_patterns \o patterns, MAX_SUCCESSFUL_PATTERNS)
    IN  [ld EXCEPT !.intent_improvements = DictSet(known, intent,
            [successful_patterns |-> successful, failed_patterns |-> failed,
             improvement_suggestions |-> intent_data.improvement_suggestions])]

\* LearningLayer._learn_intent_patterns
learn_intent_patterns(ld, user_message, intent, success) ==
    LET known == ld.intent_improvements
        fresh == [successful_patterns |-> <<>>, failed_patterns |-> <<>>,
                  improvement_suggestions |-> <<>>]
        intent_data == IF intent \in DOMAIN known THEN known[intent] ELSE fresh
        patterns == extract_patterns_cached(user_message)
        successful == LastN(IF success THEN intent_data.successful_patterns \o patterns
                            ELSE intent_data.successful_patterns, MAX_SUCCESSFUL_PATTERNS)
        failed == LastN(IF success THEN intent_data.failed_patterns
                        ELSE intent_data.failed_patterns \o patterns, MAX_FAILED_PATTERNS)
        suggestion == "Intent '" \o intent \o "' has " \o ToString(Len(failed))
                        \o " failed patterns. Consider retraining with more examples."
        suggestions ==
            IF Len(failed) > 5 /\ suggestion \notin SeqToSet(intent_data.improvement_suggestions)
            THEN Append(intent_data.improvement_suggestions, suggestion)
            ELSE intent_data.improvement_suggestions
    IN  [ld EXCEPT !.intent_improvements = DictSet(known, intent,
            [successful_patterns |-> successful, failed_patterns |-> failed,
             improvement_suggestions |-> suggestions])]

\* LearningLayer._learn_response_effectiveness
learn_response_effectiveness(ld, bot_response, success, sentiment, now) ==
    LET feedback_record ==
            [timestamp |-> now,
             strategy |-> Get(bot_response, "strategy", "unknown"),
             success |-> success,
             user_sentiment |-> Get(sentiment, "sentiment", "neutral"),
             response_confidence |-> Get(bot_response, "confidence", 0)]
        feedback == Append(ld.response_feedback, feedback_record)
    IN  [ld EXCEPT !.response_feedback =
            IF Len(feedback) > MAX_FEEDBACK THEN LastN(feedback, MAX_FEEDBACK) ELSE feedback]

\* the patterns already discovered for an intent
existing_patterns(discoveries, intent) ==
    {discoveries[i].pattern : i \in {j \in 1..Len(discoveries) : discoveries[j].intent = intent}}

RECURSIVE AddDiscoveries(_, _, _, _, _)
\* the first loop of _discover_patterns, over patterns
AddDiscoveries(discoveries, patterns, intent, sentiment, now) ==
    IF patterns = <<>> THEN discoveries
    ELSE LET pattern == Head(patterns)
             discovery == [timestamp |-> now, pattern |-> pattern, intent |-> intent,
                           sentiment |-> Get(sentiment, "sentiment", "neutral"),
                           frequency |-> 1]
             next == IF pattern \notin existing_patterns(discoveries, intent) /\ Len(pattern) > 3
                     THEN Append(discoveries, discovery)
                     ELSE discoveries
         IN  AddDiscoveries(next, Tail(patterns), intent, sentiment, now)

RECURSIVE AddDiscoveries_StaleExisting(_, _, _, _, _, _)
\* the first loop with existing_patterns computed once, before the loop
AddDiscoveries_StaleExisting(discoveries, existing, patterns, intent, sentiment, now) ==
    IF patterns = <<>> THEN discoveries
    ELSE LET pattern == Head(patterns)
             discovery == [timestamp |-> now, pattern |-> pattern, intent |-> intent,
                           sentiment |-> Get(sentiment, "sentiment", "neutral"),
                           frequency |-> 1]
             next == IF pattern \notin existing /\ Len(pattern) > 3
                     THEN Append(discoveries, discovery)
                     ELSE discoveries
         IN  AddDiscoveries_StaleExisting(next, existing, Tail(patterns), intent, sentiment, now)

\* the second loop of _discover_patterns: every record of the intent whose
\* pattern is in the message, the ones just added included
BumpFrequencies(discoveries, patterns, intent) ==
    [i \in 1..Len(discoveries) |->
        IF discoveries[i].intent = intent /\ discoveries[i].pattern \in SeqToSet(patterns)
        THEN [discoveries[i] EXCEPT !.frequency = @ + 1]
        ELSE discoveries[i]]

\* _discover_patterns looking up the known patterns once
discover_patterns_StaleExisting(ld, user_message, intent, sentiment, now) ==
    LET patterns == extract_patterns_cached(user_message)
        added == AddDiscoveries_StaleExisting(ld.pattern_discoveries,
                    existing_patterns(ld.pattern_discoveries, intent),
                    patterns, intent, sentiment, now)
        bumped == BumpFrequencies(added, patterns, intent)
    IN  [ld EXCEPT !.pattern_discoveries =
            IF Len(bumped) > MAX_DISCOVERIES THEN LastN(bumped, MAX_DISCOVERIES) ELSE bumped]

\* LearningLayer._discover_patterns
discover_patterns(ld, user_message, intent, sentiment, now) ==
    LET patterns == extract_patterns_cached(user_message)
        added == AddDiscoveries(ld.pattern_discoveries, patterns, intent, sentiment, now)
        bumped == BumpFrequencies(added, patterns, intent)
    IN  [ld EXCEPT !.pattern_discoveries =
            IF Len(bumped) > MAX_DISCOVERIES THEN LastN(bumped, MAX_DISCOVERIES) ELSE bumped]

RECURSIVE SumField(_, _, _)
\* sum(data[field] for data in perf.values()), over the keys left
SumField(perf, keys, field) ==
    IF keys = {} THEN 0
    ELSE LET k == CHOOSE x \in keys : TRUE
         IN  perf[k][field] + SumField(perf, keys \ {k}, field)

\* (total_successful / total_attempts * 100) if total_attempts > 0 else 0
OverallAccuracy(intent_perf) ==
    LET total_attempts == SumField(intent_perf, DOMAIN intent_perf, "total")
        total_successful == SumField(intent_perf, DOMAIN intent_perf, "successful")
    IN  IF total_attempts > 0 THEN <<total_successful * 100, total_attempts>> ELSE <<0, 1>>

\* the accuracy taken from the current intent's counters alone
UpdatedRecord_IntentOnly(record, intent, success) ==
    LET perf0 == record.intent_performance
        perf1 == IF intent \in DOMAIN perf0 THEN perf0
                 ELSE DictSet(perf0, intent, [total |-> 0, successful |-> 0])
        perf2 == [perf1 EXCEPT ![intent] =
                    [total |-> @.total + 1,
                     successful |-> IF success THEN @.successful + 1 ELSE @.successful]]
    IN  [date |-> record.date, intent_performance |-> perf2,
         overall_accuracy |-> <<perf2[intent].successful * 100, perf2[intent].total>>]

\* today's record after the update and the recomputation of its accuracy
UpdatedRecord(record, intent, success) ==
    LET perf0 == record.intent_performance
        perf1 == IF intent \in DOMAIN perf0 THEN perf0
                 ELSE DictSet(perf0, intent, [total |-> 0, successful |-> 0])
        perf2 == [perf1 EXCEPT ![intent] =
                    [total |-> @.total + 1,
                     successful |-> IF success THEN @.successful + 1 ELSE @.successful]]
    IN  [date |-> record.date, intent_performance |-> perf2,
         overall_accuracy |-> OverallAccuracy(perf2)]

\* LearningLayer._track_model_performance
track_model_performance(ld, intent, success, now) ==
    LET history0 == ld.model_performance_history
        found == {i \in 1..Len(history0) : history0[i].date = now}
        history1 == IF found = {}
                    THEN Append(history0, [date |-> now, intent_performance |-> EmptyDict,
                                           overall_accuracy |-> <<0, 1>>])
                    ELSE history0
        at == IF found = {} THEN Len(history1)
              ELSE CHOOSE i \in found : \A j \in found : i <= j
        history2 == [history1 EXCEPT ![at] = UpdatedRecord(@, intent, success)]
    IN  [ld EXCEPT !.model_performance_history =
            IF Len(history2) > MAX_PERFORMANCE_DAYS
            THEN LastN(history2, MAX_PERFORMANCE_DAYS) ELSE history2]

\* LearningLayer.learn_from_conversation, up to the save: the four updates
\* in the order of the calls
learn_from_conversation(ld, user_id, user_message, bot_response, intent, sentiment, success, now) ==
    track_model_performance(
        discover_patterns(
            learn_response_effectiveness(
                learn_intent_patterns(ld, user_message, intent, success),
                bot_response, success, sentiment, now),
            user_message, intent, sentiment, now),
        intent, success, now)

\* _save_learning_data leaving the file as it was
save_learning_data_Skipped(ld, file, write_ok) == {file}

\* LearningLayer._save_learning_data: the file after the write; an OSError
\* is swallowed and leaves the old file or a truncated one
save_learning_data(ld, file, write_ok) ==
    IF write_ok THEN {[valid |-> TRUE, data |-> ld]}
    ELSE {file, [valid |-> FALSE, data |-> EmptyLearningData]}

\* config.py: Config.INTENTS, the keywords of every intent
INTENTS == <<
    [intent |-> "greeting",
     keywords |-> <<"hello", "hi", "hey", "good morning", "good afternoon">>],
    [intent |-> "goodbye",
     keywords |-> <<"bye", "goodbye", "see you", "farewell", "exit">>],
    [intent |-> "question",
     keywords |-> <<"what", "how", "when", "where", "why", "who", "pm", "prime minister">>],
    [intent |-> "help",
     keywords |-> <<"help", "assist", "support", "guide", "can you">>],
    [intent |-> "complaint",
     keywords |-> <<"problem", "issue", "error", "bug", "broken", "not working">>],
    [intent |-> "compliment",
     keywords |-> <<"good", "great", "excellent", "amazing", "thank you", "thanks">>],
    [intent |-> "general",
     keywords |-> <<"tell me", "information", "about", "explain", "describe">>] >>

RECURSIVE Keys(_)
\* the keys of a dict as a list; the dicts of the model do not keep the order
\* of insertion, the list has one fixed order
Keys(keys) ==
    IF keys = {} THEN <<>>
    ELSE <<CHOOSE k \in keys : TRUE>> \o Keys(keys \ {CHOOSE k \in keys : TRUE})

RECURSIVE FirstSeen(_, _, _, _)
\* the keys of a dict filled from lst[i..][field], in the order of insertion
FirstSeen(lst, field, i, seen) ==
    IF i > Len(lst) THEN <<>>
    ELSE IF lst[i][field] \in seen THEN FirstSeen(lst, field, i + 1, seen)
    ELSE <<lst[i][field]>> \o FirstSeen(lst, field, i + 1, seen \cup {lst[i][field]})

\* a suggestion dict; its 'suggestion' text, a rendering of the target and
\* of the count or rate that was tested, is left out
Suggestion(type, priority, action, target) ==
    [type |-> type, priority |-> priority, action |-> action, target |-> target]

\* the body of the loop of _analyze_intent_performance
analyze_intent(intent, failed_count, successful_count) ==
    (IF failed_count > 10
     THEN <<Suggestion("intent_improvement", "high", "retrain_intent_model", intent)>>
     ELSE <<>>)
    \o (IF successful_count > 50 /\ failed_count < 5
        THEN <<Suggestion("intent_optimization", "low", "use_as_template", intent)>>
        ELSE <<>>)

RECURSIVE analyze_intents(_, _, _)
analyze_intents(improvements, intents, i) ==
    IF i > Len(intents) THEN <<>>
    ELSE analyze_intent(intents[i], Len(improvements[intents[i]].failed_patterns),
                        Len(improvements[intents[i]].successful_patterns))
         \o analyze_intents(improvements, intents, i + 1)

\* LearningLayer._analyze_intent_performance
analyze_intent_performance(ld) ==
    analyze_intents(ld.intent_improvements, Keys(DOMAIN ld.intent_improvements), 1)

\* strategy_performance[strategy] after the grouping loop
strategy_performance(feedbacks, strategy) ==
    [total |-> Cardinality({i \in 1..Len(feedbacks) : feedbacks[i].strategy = strategy}),
     successful |-> Cardinality({i \in 1..Len(feedbacks) :
                        feedbacks[i].strategy = strategy /\ feedbacks[i].success})]

\* the body of the second loop with the test 'at least 10 data points'
analyze_strategy_AtLeastTen(strategy, performance) ==
    IF performance.total >= 10
    THEN IF performance.successful * 100 < 60 * performance.total
         THEN <<Suggestion("response_improvement", "high", "improve_response_strategy", strategy)>>
         ELSE IF performance.successful * 100 > 90 * performance.total
         THEN <<Suggestion("response_optimization", "low", "expand_strategy_usage", strategy)>>
         ELSE <<>>
    ELSE <<>>

\* the body of the second loop of _analyze_response_effectiveness;
\* success_rate = successful / total * 100 is compared without the division
analyze_strategy(strategy, performance) ==
    IF performance.total > 10
    THEN IF performance.successful * 100 < 60 * performance.total
         THEN <<Suggestion("response_improvement", "high", "improve_response_strategy", strategy)>>
         ELSE IF performance.successful * 100 > 90 * performance.total
         THEN <<Suggestion("response_optimization", "low", "expand_strategy_usage", strategy)>>
         ELSE <<>>
    ELSE <<>>

RECURSIVE analyze_strategies(_, _, _)
analyze_strategies(feedbacks, strategies, i) ==
    IF i > Len(strategies) THEN <<>>
    ELSE analyze_strategy(strategies[i], strategy_performance(feedbacks, strategies[i]))
         \o analyze_strategies(feedbacks, strategies, i + 1)

\* the feedbacks _analyze_response_effectiveness looks at
MAX_RECENT_FEEDBACK == 100

\* LearningLayer._analyze_response_effectiveness over response_feedback[-100:]
recent_effectiveness(feedbacks) ==
    analyze_strategies(feedbacks, FirstSeen(feedbacks, "strategy", 1, {}), 1)

analyze_response_effectiveness(ld) ==
    recent_effectiveness(LastN(ld.response_feedback, MAX_RECENT_FEEDBACK))

RECURSIVE pattern_frequency(_, _, _)
\* pattern_frequency[pattern] after the summing loop over discoveries[i..]
pattern_frequency(discoveries, pattern, i) ==
    IF i > Len(discoveries) THEN 0
    ELSE (IF discoveries[i].pattern = pattern THEN discoveries[i].frequency ELSE 0)
         + pattern_frequency(discoveries, pattern, i + 1)

\* a keyword of some configured intent occurs in the pattern
covered(pattern) ==
    \E i \in 1..Len(INTENTS) : \E k \in 1..Len(INTENTS[i].keywords) :
        Contains(pattern, INTENTS[i].keywords[k])

\* the body of the second loop of _analyze_pattern_discoveries
analyze_pattern(pattern, frequency) ==
    IF frequency > 10 /\ ~covered(pattern)
    THEN <<Suggestion("new_intent_suggestion", "medium", "create_new_intent", pattern)>>
    ELSE <<>>

RECURSIVE analyze_patterns(_, _, _)
analyze_patterns(discoveries, patterns, i) ==
    IF i > Len(patterns) THEN <<>>
    ELSE analyze_pattern(patterns[i], pattern_frequency(discoveries, patterns[i], 1))
         \o analyze_patterns(discoveries, patterns, i + 1)

\* LearningLayer._analyze_pattern_discoveries
analyze_pattern_discoveries(ld) ==
    analyze_patterns(ld.pattern_discoveries,
                     FirstSeen(ld.pattern_discoveries, "pattern", 1, {}), 1)

\* the list generate_optimization_suggestions builds, stores and returns
optimization_suggestions(ld) ==
    analyze_intent_performance(ld) \o analyze_response_effectiveness(ld)
        \o analyze_pattern_discoveries(ld)

\* LearningLayer.generate_optimization_suggestions: the corpus it leaves
generate_optimization_suggestions(ld, suggestions) ==
    [ld EXCEPT !.optimization_suggestions = suggestions]

\* nlp_layer.py: training_examples of train_intent_model
training_examples == <<
    [intent |-> "greeting",
     examples |-> <<"hello", "hi", "hey", "good morning", "good afternoon", "good evening",
                    "greetings", "howdy", "hiya", "sup">>],
    [intent |-> "goodbye",
     examples |-> <<"bye", "goodbye", "see you later", "farewell", "take care", "exit",
                    "quit", "see ya", "catch you later", "until next time">>],
    [intent |-> "question",
     examples |-> <<"what is machine learning", "what is data science", "how does AI work",
                    "explain artificial intelligence", "tell me about python",
                    "what are algorithms", "how do neural networks work",
                    "what is deep learning", "define statistics",
                    "what is the capital of france", "who is the president",
                    "when was this invented", "where is this located",
                    "why does this happen", "which is better", "what time is it",
                    "how old are you", "what can you do">>],
    [intent |-> "help",
     examples |-> <<"help me", "can you help", "i need assistance", "support me",
                    "guide me", "show me how", "can you assist", "i need help with",
                    "help with this", "assist me please">>],
    [intent |-> "compliment",
     examples |-> <<"thank you", "thanks", "good job", "well done", "excellent work",
                    "great response", "amazing", "fantastic", "you are helpful",
                    "appreciate it", "good answer">>],
    [intent |-> "general",
     examples |-> <<"tell me something", "i want to know", "information about",
                    "details on", "more about this", "explain this topic",
                    "i am interested in", "show me", "describe this">>] >>

\* the examples of a list, each with the label, as <<text, label>>
Labelled(lst, label) == [i \in 1..Len(lst) |-> <<lst[i], label>>]

RECURSIVE Varied(_, _, _)
\* the examples lst[i..] of train_intent_model with the variations it adds
\* to those of a question
Varied(lst, intent, i) ==
    IF i > Len(lst) THEN <<>>
    ELSE (IF intent = "question"
          THEN <<<<lst[i], intent>>, <<"can you " \o lst[i], intent>>,
                 <<"please " \o lst[i], intent>>>>
          ELSE <<<<lst[i], intent>>>>)
         \o Varied(lst, intent, i + 1)

RECURSIVE fitted_data(_)
\* NLPLayer.train_intent_model: the labelled examples the model is fitted
\* on, those of training_examples[i..]
fitted_data(i) ==
    IF i > Len(training_examples) THEN <<>>
    ELSE Varied(training_examples[i].examples, training_examples[i].intent, 1)
         \o fitted_data(i + 1)

\* NLPLayer.train_intent_model, which takes no argument: the data the new
\* model is fitted on
train_intent_model == fitted_data(1)

RECURSIVE collected_patterns(_, _, _)
\* the first loop of improve_intent_classifier over the intents[i..]
collected_patterns(improvements, intents, i) ==
    IF i > Len(intents) THEN <<>>
    ELSE Labelled(improvements[intents[i]].successful_patterns, intents[i])
         \o collected_patterns(improvements, intents, i + 1)

RECURSIVE configured_keywords(_)
\* the second loop of improve_intent_classifier over INTENTS[i..]
configured_keywords(i) ==
    IF i > Len(INTENTS) THEN <<>>
    ELSE Labelled(INTENTS[i].keywords, INTENTS[i].intent) \o configured_keywords(i + 1)

\* training_data and labels of improve_intent_classifier, as <<text, label>>
combined_corpus(ld) ==
    collected_patterns(ld.intent_improvements, Keys(DOMAIN ld.intent_improvements), 1)
        \o configured_keywords(1)

\* the corpus size improve_intent_classifier must exceed to retrain
MIN_TRAINING_DATA == 50

\* LearningLayer.improve_intent_classifier on the corpus it collected:
\* what it returns, whether it called train_intent_model, and the data the
\* classifier is fitted on afterwards (<<>>: the classifier is the old one)
improve_intent_classifier(training_data, train_raises) ==
    IF Len(training_data) > MIN_TRAINING_DATA
    THEN [result |-> ~train_raises, retrained |-> TRUE,
          fitted_on |-> IF train_raises THEN <<>> ELSE train_intent_model]
    ELSE [result |-> FALSE, retrained |-> FALSE, fitted_on |-> <<>>]

(***************************************************************************)
(* backend/preprocessing.py                                                *)
(***************************************************************************)
RECURSIVE Join(_)
\* ' '.join(words)
Join(words) ==
    IF words = <<>> THEN ""
    ELSE IF Len(words) = 1 THEN words[1]
    ELSE words[1] \o " " \o Join(Tail(words))

RECURSIVE Replace(_, _, _)
\* str.replace(old, new) for a non-empty old
Replace(s, old, new) ==
    IF Len(s) < Len(old) THEN s
    ELSE IF SubSeq(s, 1, Len(old)) = old
    THEN new \o Replace(SubSeq(s, Len(old) + 1, Len(s)), old, new)
    ELSE Head(s) \o Replace(Tail(s), old, new)

\* PreprocessingLayer.contractions, in insertion order
contractions ==
    << <<"won't", "will not">>, <<"can't", "cannot">>, <<"n't", " not">>,
       <<"'re", " are">>, <<"'ve", " have">>, <<"'ll", " will">>,
       <<"'d", " would">>, <<"'m", " am">> >>

RECURSIVE ExpandContractions(_, _)
\* the loop of clean_text over the contractions from entry i on
ExpandContractions(text, i) ==
    IF i > Len(contractions) THEN text
    ELSE ExpandContractions(Replace(text, contractions[i][1], contractions[i][2]), i + 1)

RECURSIVE CollapseSpaces(_)
\* re.sub(r'\s+', ' ', text)
CollapseSpaces(s) ==
    IF s = "" THEN ""
    ELSE IF Head(s) = " " THEN " " \o CollapseSpaces(LStrip(s))
    ELSE Head(s) \o CollapseSpaces(Tail(s))

\* the characters [\w\s.,!?-] keeps
KeptChars == "abcdefghijklmnopqrstuvwxyzABCDEFGHIJKLMNOPQRSTUVWXYZ0123456789_ .,!?-"
KeptSet == {SubSeq(KeptChars, i, i) : i \in 1..Len(KeptChars)}

RECURSIVE RemoveSpecial(_)
\* re.sub(r'[^\w\s.,!?-]', '', text)
RemoveSpecial(s) ==
    IF s = "" THEN ""
    ELSE (IF Head(s) \in KeptSet THEN Head(s) ELSE "") \o RemoveSpecial(Tail(s))

\* PreprocessingLayer.clean_text
clean_text(text) ==
    IF text = "" THEN ""
    ELSE Strip(RemoveSpecial(CollapseSpaces(ExpandContractions(Lower(text), 1))))

\* corrections.get(word, word) in spell_correct
Correct(word) ==
    CASE word = "teh" -> "the"
      [] word = "adn" -> "and"
      [] word = "taht" -> "that"
      [] word = "waht" -> "what"
      [] word = "hwo" -> "how"
      [] word = "whne" -> "when"
      [] OTHER -> word

\* PreprocessingLayer.spell_correct
spell_correct(text) ==
    LET words == Split(text)
    IN  Join([i \in 1..Len(words) |-> Correct(words[i])])

\* PreprocessingLayer.preprocess: the fields the pipeline reads
preprocess(text) ==
    IF text = "" THEN [original |-> "", cleaned |-> ""]
    ELSE [original |-> text, cleaned |-> clean_text(spell_correct(text))]

\* preprocess on every text of the model, computed once
preprocess_table == [text \in Texts |-> preprocess(text)]

\* preprocess, looked up: every text of the model is in the table
preprocess_cached(text) == preprocess_table[text]

(***************************************************************************)
(* backend/nlp_layer.py                                                    *)
(***************************************************************************)
MAX_CONVERSATION_HISTORY == 10

\* any(sub in s for sub in subs)
ContainsAny(s, subs) == \E sub \in subs : Contains(s, sub)

\* NLPLayer.classify_intent: <<intent, confidence>>; ml is what the trained
\* model answers: it raised, or a predicted intent and its probability
classify_intent(text, ml) ==
    LET text_lower == Strip(Lower(text))
        words == Split(text_lower)
    IN  IF /\ ContainsAny(text_lower, {"hello", "hi", "hey", "good morning",
                    "good afternoon", "good evening", "greetings"})
           /\ ~ContainsAny(text_lower, {"what", "how", "why", "when", "where", "who",
                    "which", "?"})
        THEN <<"greeting", 95>>
        ELSE IF ContainsAny(text_lower, {"bye", "goodbye", "see you", "farewell",
                    "exit", "quit"})
        THEN <<"goodbye", 90>>
        ELSE IF ContainsAny(text_lower, {"thank", "thanks", "good job", "well done",
                    "excellent", "amazing", "great"})
        THEN <<"compliment", 85>>
        ELSE IF ContainsAny(text_lower, {"help me", "can you help", "need help",
                    "assist me", "support me"})
        THEN <<"help", 90>>
        ELSE IF \/ ContainsAny(text_lower, {"what is", "what are", "how does", "how do",
                        "tell me about", "explain", "describe", "define"})
                \/ Contains(text, "?")
        THEN <<"question", 95>>
        ELSE IF Len(words) > 0 /\ words[1] \in {"what", "how", "when", "where", "why",
                                                "who", "which"}
        THEN <<"question", 90>>
        ELSE IF ~ml.raised /\ ml.confidence > 70
        THEN <<ml.intent, ml.confidence>>
        ELSE <<"general", 60>>

\* classify_intent on every cleaned text and model answer, computed once
classify_intent_table ==
    [text \in {preprocess_table[t].cleaned : t \in Texts},
     ml \in {env.ml : env \in Environments} |-> classify_intent(text, ml)]

\* classify_intent, looked up: every cleaned text of the model and every
\* answer of the intent model is in the table
classify_intent_cached(text, ml) == classify_intent_table[text, ml]

\* the context of a user without one
FreshContext ==
    [tag |-> "dict", history |-> <<>>, current_topic |-> None,
     user_preferences |-> EmptyDict]

\* NLPLayer.get_context
get_context(memory, user_id) ==
    IF user_id \in DOMAIN memory THEN memory[user_id] ELSE FreshContext

\* NLPLayer.process: the fields the pipeline reads
nlp_process(memory, text, user_id, ml) ==
    LET classified == classify_intent_cached(text, ml)
    IN  [intent |-> classified[1],
         intent_confidence |-> classified[2],
         context |-> IF user_id # "" THEN get_context(memory, user_id)
                     ELSE [tag |-> "dict"]]

\* NLPLayer.update_context
update_context(memory, user_id, user_message, bot_response, intent) ==
    LET context == get_context(memory, user_id)
        history == Append(context.history,
                          [user |-> user_message, bot |-> bot_response,
                           intent |-> intent, timestamp |-> None])
        kept == IF Len(history) > MAX_CONVERSATION_HISTORY
                THEN SubSeq(history, Len(history) - MAX_CONVERSATION_HISTORY + 1,
                            Len(history))
                ELSE history
    IN  [k \in DOMAIN memory \cup {user_id} |->
            IF k = user_id
            THEN [context EXCEPT !.history = kept, !.current_topic = intent]
            ELSE memory[k]]

(***************************************************************************)
(* backend/sentiment_layer.py                                              *)
(***************************************************************************)
\* SentimentLayer.emotion_keywords, in insertion order
emotion_keywords ==
    << <<"joy", <<"happy", "excited", "great", "wonderful", "amazing", "fantastic",
                  "love", "enjoy">> >>,
       <<"sadness", <<"sad", "depressed", "unhappy", "disappointed", "upset", "down",
                      "miserable">> >>,
       <<"anger", <<"angry", "mad", "furious", "annoyed", "frustrated", "irritated",
                    "hate">> >>,
       <<"fear", <<"scared", "afraid", "worried", "anxious", "nervous", "terrified",
                   "panic">> >>,
       <<"surprise", <<"surprised", "shocked", "amazed", "astonished", "unexpected",
                       "wow">> >>,
       <<"disgust", <<"disgusted", "sick", "revolted", "appalled", "repulsed",
                      "gross">> >> >>

\* SentimentLayer.analyze_polarity on the polarity TextBlob reports
analyze_polarity(polarity) ==
    LET magnitude == IF polarity < 0 THEN 0 - polarity ELSE polarity
    IN  [polarity |-> polarity,
         sentiment |-> IF polarity > 10 THEN "positive"
                       ELSE IF polarity < -10 THEN "negative"
                       ELSE "neutral",
         confidence |-> IF magnitude > 10 THEN magnitude ELSE 50]

\* SentimentLayer.detect_emotions: the emotions as a set (the list is only
\* tested for membership) and the first emotion with the highest score
detect_emotions(text) ==
    LET text_lower == Lower(text)
        score(i) ==
            <<Cardinality({k \in 1..Len(emotion_keywords[i][2]) :
                            Contains(text_lower, emotion_keywords[i][2][k])}),
              Len(emotion_keywords[i][2])>>
        hit == {i \in 1..Len(emotion_keywords) : score(i)[1] > 0}
    IN  [emotions |-> {emotion_keywords[i][1] : i \in hit},
         primary_emotion |->
            IF hit = {} THEN None
            ELSE emotion_keywords[CHOOSE i \in hit : \A j \in hit :
                    \/ RatGT(score(i), score(j))
                    \/ RatEQ(score(i), score(j)) /\ i <= j][1]]

\* detect_emotions on every text of the model, computed once
detect_emotions_table == [text \in Texts |-> detect_emotions(text)]

\* detect_emotions, looked up: every text of the model is in the table
detect_emotions_cached(text) == detect_emotions_table[text]

\* SentimentLayer.get_tone_suggestions
get_tone_suggestions(sentiment, emotions) ==
    LET base == [empathy_level |-> "medium", enthusiasm_level |-> "medium",
                 formality_level |-> "medium", supportiveness |-> "medium"]
        by_sentiment ==
            IF sentiment = "negative"
            THEN [base EXCEPT !.empathy_level = "high", !.supportiveness = "high",
                              !.enthusiasm_level = "low"]
            ELSE IF sentiment = "positive"
            THEN [base EXCEPT !.enthusiasm_level = "high", !.empathy_level = "medium"]
            ELSE base
    IN  IF "anger" \in emotions
        THEN [by_sentiment EXCEPT !.empathy_level = "high", !.formality_level = "high",
                                  !.enthusiasm_level = "low"]
        ELSE IF "sadness" \in emotions
        THEN [by_sentiment EXCEPT !.empathy_level = "high", !.supportiveness = "high"]
        ELSE IF "joy" \in emotions
        THEN [by_sentiment EXCEPT !.enthusiasm_level = "high"]
        ELSE IF "fear" \in emotions
        THEN [by_sentiment EXCEPT !.supportiveness = "high", !.empathy_level = "high"]
        ELSE by_sentiment

\* SentimentLayer.analyze, given the polarity TextBlob reports for the text
analyze(text, polarity) ==
    LET polarity_data == analyze_polarity(polarity)
        emotion_data == detect_emotions_cached(text)
    IN  [polarity |-> polarity_data.polarity,
         sentiment |-> polarity_data.sentiment,
         confidence |-> polarity_data.confidence,
         emotions |-> emotion_data.emotions,
         primary_emotion |-> emotion_data.primary_emotion,
         tone_suggestions |-> get_tone_suggestions(polarity_data.sentiment,
                                                   emotion_data.emotions)]

(***************************************************************************)
(* backend/response_layer.py                                               *)
(***************************************************************************)
\* Config.RESPONSES
RESPONSES ==
    [intent \in {"greeting", "goodbye", "help", "question", "complaint", "compliment",
                 "general"} |->
        CASE intent = "greeting" ->
                <<"Hello! How can I help you today?",
                  "Hi there! What can I do for you?",
                  "Greetings! I'm here to assist you.">>
          [] intent = "goodbye" ->
                <<"Goodbye! Have a great day!",
                  "See you later! Take care!",
                  "Farewell! Feel free to return anytime.">>
          [] intent = "help" ->
                <<"I'm here to help! What do you need assistance with?",
                  "How can I assist you today?",
                  "I'd be happy to help you with your questions.">>
          [] intent = "question" ->
                <<"That's an interesting question. Let me help you with that.",
                  "I'd be happy to answer your question.",
                  "The Prime Minister of India is Narendra Modi, serving since 2014.">>
          [] intent = "complaint" ->
                <<"I understand your concern. How can I help resolve this?",
                  "I'm sorry to hear about this issue. Let me assist you.",
                  "I appreciate you bringing this to my attention.">>
          [] intent = "compliment" ->
                <<"Thank you! I'm glad I could be helpful.",
                  "I appreciate your kind words!",
                  "Thank you! It's my pleasure to assist you.">>
          [] OTHER ->
                <<"I'd be happy to provide information about that.",
                  "Let me share what I know about this topic.",
                  "Here's what I can tell you about that.">>]

\* random.choice(options), given the draw of the generator
choice(options, draw) == options[(draw % Len(options)) + 1]

\* ResponseLayer._apply_tone_modifications
apply_tone_modifications(text, sentiment, draw) ==
    LET sentiment_label == Get(sentiment, "sentiment", "neutral")
        emotions == Get(sentiment, "emotions", {})
    IN  IF sentiment_label = "negative" \/ "anger" \in emotions
        THEN choice(<<"I understand that can be concerning. ",
                      "I can see why that might be frustrating. ",
                      "I hear you, and I want to help. ">>, draw) \o text
        ELSE IF sentiment_label = "positive" \/ "joy" \in emotions
        THEN text \o choice(<<" I'm excited to help!", " This sounds great!",
                              " I'm happy to assist!">>, draw)
        ELSE text

\* ResponseLayer.generate_rule_based_response
generate_rule_based_response(intent, sentiment, draws) ==
    [text |-> apply_tone_modifications(
                choice(Get(RESPONSES, intent, RESPONSES["general"]), draws[1]),
                sentiment, draws[2]),
     strategy |-> "rule_based",
     confidence |-> 80]

\* ResponseLayer.generate_faq_response
generate_faq_response(faq_answer, sentiment) ==
    [text |-> IF Get(sentiment, "sentiment", None) = "positive"
              THEN "I'm happy to help! " \o faq_answer
              ELSE IF Get(sentiment, "sentiment", None) = "negative"
              THEN "I understand your concern. " \o faq_answer
              ELSE faq_answer,
     strategy |-> "faq",
     confidence |-> 95]

\* ResponseLayer._generate_enhanced_rule_response returning rule_based
generate_enhanced_rule_response_AsRuleBased(text, intent, sentiment, draws) ==
    [text |-> apply_tone_modifications(
                choice(Get(RESPONSES, intent, RESPONSES["general"]), draws[1]),
                sentiment, draws[2]),
     strategy |-> "rule_based",
     confidence |-> 85]

\* ResponseLayer._generate_enhanced_rule_response
generate_enhanced_rule_response(text, intent, sentiment, draws) ==
    LET text_lower == Lower(text)
        template == choice(Get(RESPONSES, intent, RESPONSES["general"]), draws[1])
        body ==
            IF Contains(text_lower, "data science")
            THEN "Data science is an interdisciplinary field that uses scientific methods, processes, algorithms, and systems to extract knowledge and insights from structured and unstructured data. It combines statistics, mathematics, programming, and domain expertise to analyze complex data sets and make data-driven decisions. Key areas include data collection, cleaning, analysis, visualization, and machine learning."
            ELSE IF Contains(text_lower, "machine learning") \/ Contains(text_lower, "ml")
            THEN "Machine Learning is a subset of artificial intelligence that enables computers to learn and make decisions from data without being explicitly programmed. It includes supervised learning (with labeled data), unsupervised learning (finding patterns), and reinforcement learning (learning through rewards)."
            ELSE IF Contains(text_lower, "artificial intelligence") \/ Contains(text_lower, "ai")
            THEN "Artificial Intelligence (AI) is the simulation of human intelligence in machines. It includes machine learning, natural language processing, computer vision, robotics, and expert systems. AI aims to create systems that can perform tasks that typically require human intelligence."
            ELSE IF /\ Contains(text_lower, "python")
                    /\ Contains(text_lower, "programming") \/ Contains(text_lower, "language")
            THEN "Python is a high-level, interpreted programming language known for its simplicity and readability. It's widely used in data science, web development, automation, and AI due to its extensive libraries like pandas, numpy, scikit-learn, and tensorflow."
            ELSE IF Contains(text_lower, "decision tree")
            THEN "A Decision Tree Classifier is a supervised machine learning algorithm that uses a tree-like model to make decisions. It splits data based on feature values to create branches, with each leaf representing a class prediction. It's easy to interpret and visualize, making it popular for classification tasks."
            ELSE IF Contains(text_lower, "7 c") /\ Contains(text_lower, "communication")
            THEN "The 7 C's of Communication are: 1) Clear - easy to understand, 2) Concise - brief and to the point, 3) Concrete - specific and definite, 4) Correct - accurate information, 5) Coherent - logical flow, 6) Complete - all necessary information, 7) Courteous - respectful and polite tone."
            ELSE IF /\ ContainsAny(text_lower, {"what", "how", "why", "when", "where",
                                                "explain", "tell me"})
                    /\ intent = "question"
            THEN "I'd be happy to help answer your question. Could you provide a bit more context or be more specific about what you'd like to know?"
            ELSE template
    IN  [text |-> apply_tone_modifications(body, sentiment, draws[2]),
         strategy |-> "enhanced_rule_based",
         confidence |-> 85]

\* ResponseLayer.generate_ai_response; api tells, for each service, whether
\* its key is configured and what the call returns: None after a timeout,
\* an error or a non-200 status, else the text
generate_ai_response(text, intent, sentiment, context, api, draws) ==
    IF api.openrouter_key /\ Truthy(api.openrouter)
    THEN [text |-> api.openrouter, strategy |-> "generative_ai", confidence |-> 90]
    ELSE IF api.huggingface_key /\ Truthy(api.huggingface)
    THEN [text |-> api.huggingface, strategy |-> "generative_ai", confidence |-> 80]
    ELSE generate_enhanced_rule_response(text, intent, sentiment, draws)

\* ResponseLayer.generate_fallback_response
generate_fallback_response(fallback_type, sentiment, draws) ==
    LET empathetic ==
            <<"I understand this might be frustrating. Let me try to help you in a different way.",
              "I can see this is important to you. Could you rephrase your question?",
              "I want to help you with this. Can you provide more details?">>
        question ==
            <<"That's an interesting question. While I don't have a specific answer, I'd be happy to help you explore this topic.",
              "I don't have complete information about that, but I can try to help you find what you're looking for.",
              "That's a good question. Could you provide more context so I can better assist you?">>
        friendly ==
            <<"I'm not sure I fully understand. Could you rephrase that?",
              "I'd like to help you with that. Can you tell me more?",
              "That's interesting! Could you elaborate a bit more?">>
        responses == IF fallback_type = "empathetic_fallback" THEN empathetic
                     ELSE IF fallback_type = "question_fallback" THEN question
                     ELSE friendly
    IN  [text |-> choice(responses, draws[1]),
         strategy |-> "fallback",
         confidence |-> 60]

\* ResponseLayer.generate_response
generate_response(strategy_decision, text, intent, sentiment, context, api, draws) ==
    LET strategy == strategy_decision.strategy
    IN  IF strategy = "faq"
        THEN generate_faq_response(strategy_decision.faq_answer, sentiment)
        ELSE IF strategy = "rule_based"
        THEN generate_rule_based_response(intent, sentiment, draws)
        ELSE IF strategy = "generative_ai"
        THEN generate_ai_response(text, intent, sentiment, context, api, draws)
        ELSE IF strategy = "fallback"
        THEN generate_fallback_response(
                Get(strategy_decision, "fallback_type", "friendly_fallback"),
                sentiment, draws)
        ELSE generate_enhanced_rule_response(text, intent, sentiment, draws)

(***************************************************************************)
(* backend/storage_layer.py and backend/analytics_layer.py                 *)
(***************************************************************************)
MAX_SENTIMENT_HISTORY == 50
MAX_CONVERSATIONS == 100
MAX_SENTIMENT_RECORDS == 1000
MAX_RESPONSE_SUCCESS == 500
MAX_FAILED_RESPONSES == 200

\* the analytics data _load_analytics_data falls back to
EmptyAnalyticsData ==
    [total_conversations |-> 0,
     intent_counts |-> EmptyDict,
     sentiment_records |-> <<>>,
     response_success |-> <<>>,
     failed_responses |-> <<>>,
     user_interactions |-> EmptyDict]

\* a JSON file after open(file, 'w') and json.dump: written, left alone
\* because it could not be opened, or cut short
WriteFile(data, file, disk, empty) ==
    IF disk = "ok" THEN [valid |-> TRUE, data |-> data]
    ELSE IF disk = "readonly" THEN file
    ELSE [valid |-> FALSE, data |-> empty]

\* a list cut to its last n entries when it is longer
Recent(lst, n) == IF Len(lst) > n THEN SubSeq(lst, Len(lst) - n + 1, Len(lst)) ELSE lst

\* StorageLayer.store_conversation, up to the save
store_conversation(chat, user_id, user_message, bot_response, intent, sentiment, success, now) ==
    LET fresh == [conversations |-> <<>>,
                  user_profile |-> [first_interaction |-> now, total_messages |-> 0,
                                    preferred_intents |-> EmptyDict,
                                    sentiment_history |-> <<>>]]
        user == IF user_id \in DOMAIN chat THEN chat[user_id] ELSE fresh
        profile == user.user_profile
        conversation_entry ==
            [timestamp |-> now, user_message |-> user_message,
             bot_response |-> bot_response, intent |-> intent,
             sentiment |-> sentiment, success |-> success]
        sentiment_history ==
            Append(profile.sentiment_history,
                   [timestamp |-> now,
                    sentiment |-> Get(sentiment, "sentiment", "neutral"),
                    polarity |-> Get(sentiment, "polarity", 0)])
    IN  DictSet(chat, user_id,
            [conversations |-> Recent(Append(user.conversations, conversation_entry),
                                      MAX_CONVERSATIONS),
             user_profile |->
                [first_interaction |-> profile.first_interaction,
                 total_messages |-> profile.total_messages + 1,
                 last_interaction |-> now,
                 preferred_intents |->
                    DictSet(profile.preferred_intents, intent,
                            Get(profile.preferred_intents, intent, 0) + 1),
                 sentiment_history |-> Recent(sentiment_history, MAX_SENTIMENT_HISTORY)]])

\* store_intent_record counting the successes only
store_intent_record_TotalKept(analytics, intent, confidence, success) ==
    LET fresh == [total |-> 0, successful |-> 0, avg_confidence |-> <<0, 1>>,
                  confidence_sum |-> 0]
        intent_data == Get(analytics.intent_counts, intent, fresh)
    IN  [analytics EXCEPT !.intent_counts = DictSet(@, intent,
            [total |-> intent_data.total,
             successful |-> IF success THEN intent_data.successful + 1
                            ELSE intent_data.successful,
             avg_confidence |-> <<intent_data.confidence_sum + confidence,
                                  intent_data.total + 1>>,
             confidence_sum |-> intent_data.confidence_sum + confidence])]

\* StorageLayer.store_intent_record, up to the save
store_intent_record(analytics, intent, confidence, success) ==
    LET fresh == [total |-> 0, successful |-> 0, avg_confidence |-> <<0, 1>>,
                  confidence_sum |-> 0]
        intent_data == Get(analytics.intent_counts, intent, fresh)
    IN  [analytics EXCEPT !.intent_counts = DictSet(@, intent,
            [total |-> intent_data.total + 1,
             successful |-> IF success THEN intent_data.successful + 1
                            ELSE intent_data.successful,
             avg_confidence |-> <<intent_data.confidence_sum + confidence,
                                  intent_data.total + 1>>,
             confidence_sum |-> intent_data.confidence_sum + confidence])]

\* StorageLayer.store_sentiment_record, up to the save
store_sentiment_record(analytics, sentiment_data, user_id, now) ==
    LET sentiment_record ==
            [timestamp |-> now, user_id |-> user_id,
             sentiment |-> Get(sentiment_data, "sentiment", "neutral"),
             polarity |-> Get(sentiment_data, "polarity", 0),
             emotions |-> Get(sentiment_data, "emotions", {}),
             primary_emotion |-> Get(sentiment_data, "primary_emotion", None)]
    IN  [analytics EXCEPT !.sentiment_records =
            Recent(Append(@, sentiment_record), MAX_SENTIMENT_RECORDS)]

\* StorageLayer.store_response_success, up to the save
store_response_success(analytics, strategy, success, confidence, now) ==
    LET record == [timestamp |-> now, strategy |-> strategy, success |-> success,
                   confidence |-> confidence]
    IN  IF success
        THEN [analytics EXCEPT !.response_success =
                Recent(Append(@, record), MAX_RESPONSE_SUCCESS)]
        ELSE [analytics EXCEPT !.failed_responses =
                Recent(Append(@, record), MAX_FAILED_RESPONSES)]

\* AnalyticsLayer.track_conversation: the analytics data it leaves, and
\* whether it raised.  A user's 'intents' is a defaultdict when the entry
\* was made by this process and a plain dict when it was loaded from the
\* file: user_data['intents'][intent] += 1 then raises KeyError for an
\* intent the user has not had.
track_conversation(analytics, user_id, intent, sentiment, response_strategy, success, now) ==
    LET counted == [analytics EXCEPT !.total_conversations = @ + 1]
        fresh == [total_messages |-> 0, first_interaction |-> now,
                  last_interaction |-> now,
                  intents |-> [defaultdict |-> TRUE, counts |-> EmptyDict],
                  avg_sentiment |-> <<0, 1>>, sentiment_sum |-> 0]
        user_data == Get(counted.user_interactions, user_id, fresh)
        seen == [user_data EXCEPT !.total_messages = @ + 1, !.last_interaction = now]
        key_error == ~seen.intents.defaultdict /\ intent \notin DOMAIN seen.intents.counts
        polarity == Get(sentiment, "polarity", 0)
        updated ==
            [seen EXCEPT
                !.intents = [@ EXCEPT !.counts = DictSet(@, intent, Get(@, intent, 0) + 1)],
                !.sentiment_sum = @ + polarity,
                !.avg_sentiment = <<seen.sentiment_sum + polarity, seen.total_messages>>]
        tracked == [counted EXCEPT !.user_interactions = DictSet(@, user_id, updated)]
    IN  IF key_error
        THEN [raised |-> TRUE,
              data |-> [counted EXCEPT !.user_interactions = DictSet(@, user_id, seen)]]
        ELSE [raised |-> FALSE,
              data |-> store_response_success(
                          store_sentiment_record(
                              store_intent_record(tracked, intent, 80, success),
                              sentiment, user_id, now),
                          response_strategy, success, 80, now)]

\* the strategies of the records of a list; a record without one counts
\* as 'unknown'
StrategiesOf(records) ==
    {Get(records[i], "strategy", "unknown") : i \in 1..Len(records)}

\* the records of a list with the strategy
OfStrategy(records, strategy) ==
    {i \in 1..Len(records) : Get(records[i], "strategy", "unknown") = strategy}

RECURSIVE SumConfidence(_, _)
\* the sum of record.get('confidence', 0) over the records at the indices
SumConfidence(records, indices) ==
    IF indices = {} THEN 0
    ELSE LET i == CHOOSE x \in indices : TRUE
         IN  Get(records[i], "confidence", 0) + SumConfidence(records, indices \ {i})

\* strategy_stats of get_response_effectiveness after its two loops
strategy_stats(successes, failures) ==
    [strategy \in StrategiesOf(successes) \cup StrategiesOf(failures) |->
        [total |-> Cardinality(OfStrategy(successes, strategy))
                    + Cardinality(OfStrategy(failures, strategy)),
         successful |-> Cardinality(OfStrategy(successes, strategy)),
         confidence_sum |-> SumConfidence(successes, OfStrategy(successes, strategy))
                            + SumConfidence(failures, OfStrategy(failures, strategy))]]

\* a quotient the code computes: raised when the divisor is 0
Divide(numerator, denominator) ==
    IF denominator = 0 THEN "ZeroDivisionError" ELSE <<numerator, denominator>>

\* what get_response_effectiveness returns from its except branch
NoEffectiveness ==
    [strategy_effectiveness |-> EmptyDict, overall_success_rate |-> <<0, 1>>,
     total_responses_generated |-> 0, failed_responses_count |-> 0, raised |-> TRUE]

\* the dict get_response_effectiveness builds from the statistics
effectiveness_report(stats, overall_success_rate, failures) ==
    IF \/ overall_success_rate = "ZeroDivisionError"
       \/ \E strategy \in DOMAIN stats : stats[strategy].total = 0
    THEN NoEffectiveness
    ELSE [strategy_effectiveness |->
            [strategy \in {x \in DOMAIN stats : stats[x].total > 0} |->
                [success_rate |-> <<stats[strategy].successful * 100, stats[strategy].total>>,
                 total_attempts |-> stats[strategy].total,
                 successful_responses |-> stats[strategy].successful,
                 failed_responses |-> stats[strategy].total - stats[strategy].successful,
                 avg_confidence |-> <<stats[strategy].confidence_sum,
                                      stats[strategy].total>>]],
          overall_success_rate |-> overall_success_rate,
          total_responses_generated |-> SumField(stats, DOMAIN stats, "total"),
          failed_responses_count |-> Len(failures),
          raised |-> FALSE]

\* the overall rate computed without the test of total_attempts
overall_rate_Unguarded(stats) ==
    Divide(SumField(stats, DOMAIN stats, "successful") * 100,
           SumField(stats, DOMAIN stats, "total"))

\* (total_successful / total_attempts * 100) if total_attempts > 0 else 0
overall_rate(stats) ==
    IF SumField(stats, DOMAIN stats, "total") > 0
    THEN Divide(SumField(stats, DOMAIN stats, "successful") * 100,
                SumField(stats, DOMAIN stats, "total"))
    ELSE <<0, 1>>

\* AnalyticsLayer.get_response_effectiveness; raised tells that an
\* exception was caught and the empty report returned
get_response_effectiveness(analytics) ==
    effectiveness_report(
        strategy_stats(Get(analytics, "response_success", <<>>),
                       Get(analytics, "failed_responses", <<>>)),
        overall_rate(strategy_stats(Get(analytics, "response_success", <<>>),
                                    Get(analytics, "failed_responses", <<>>))),
        Get(analytics, "failed_responses", <<>>))

\* the period the aggregations look back on by default, in days
DEFAULT_DAYS == 30

RECURSIVE MostFirst(_, _, _)
\* sorted(d.items(), key=lambda x: x[1][field], reverse=True): the keys left,
\* the largest first; among equal ones the model takes one fixed order
MostFirst(d, keys, field) ==
    IF keys = {} THEN <<>>
    ELSE <<CHOOSE k \in keys : \A other \in keys : d[k][field] >= d[other][field]>>
         \o MostFirst(d, keys \ {CHOOSE k \in keys :
                                    \A other \in keys : d[k][field] >= d[other][field]}, field)

\* the (user, index) of the conversations stored after the cutoff
recent_conversations(chat, cutoff) ==
    UNION {{<<user_id, i>> : i \in {j \in 1..Len(chat[user_id].conversations) :
                chat[user_id].conversations[j].timestamp > cutoff}} : user_id \in DOMAIN chat}

\* AnalyticsLayer.get_conversation_stats; a timestamp is a day, so the
\* activity by hour is left out
get_conversation_stats(chat, now, days) ==
    [total_conversations |-> Cardinality(recent_conversations(chat, now - days)),
     unique_users |-> Cardinality({c[1] : c \in recent_conversations(chat, now - days)}),
     daily_activity |->
        [date_key \in {chat[c[1]].conversations[c[2]].timestamp :
                            c \in recent_conversations(chat, now - days)} |->
            Cardinality({c \in recent_conversations(chat, now - days) :
                            chat[c[1]].conversations[c[2]].timestamp = date_key})]]

\* AnalyticsLayer.get_intent_analytics
get_intent_analytics(analytics) ==
    LET counts == analytics.intent_counts
        counted == {intent \in DOMAIN counts : counts[intent].total > 0}
    IN  [intent_breakdown |->
            [intent \in counted |->
                [total_count |-> counts[intent].total,
                 success_rate |-> <<counts[intent].successful * 100, counts[intent].total>>,
                 avg_confidence |-> counts[intent].avg_confidence,
                 failure_count |-> counts[intent].total - counts[intent].successful]],
         most_common_intent |->
            IF counted = {} THEN None ELSE Head(MostFirst(counts, counted, "total")),
         total_intents_processed |-> SumField(counts, DOMAIN counts, "total")]

\* Counter(...).most_common(5) as a dict: the counts of the five most
\* common keys
most_common_five(counter) ==
    LET entries == [k \in DOMAIN counter |-> [count |-> counter[k]]]
        kept == SeqToSet(FirstN(MostFirst(entries, DOMAIN entries, "count"), 5))
    IN  [k \in kept |-> counter[k]]

\* AnalyticsLayer.get_sentiment_trends on the records after the cutoff
sentiment_trends(recent_records) ==
    LET indices == 1..Len(recent_records)
        counted(sentiment) == Cardinality({i \in indices :
                                    recent_records[i].sentiment = sentiment})
        emotions == UNION {Get(recent_records[i], "emotions", {}) : i \in indices}
    IN  [sentiment_distribution |->
            [sentiment \in {recent_records[i].sentiment : i \in indices} |->
                <<counted(sentiment) * 100, Len(recent_records)>>],
         daily_sentiment_trends |->
            [date_key \in {recent_records[i].timestamp : i \in indices} |->
                [sentiment \in {"positive", "negative", "neutral"} |->
                    Cardinality({i \in indices :
                        /\ recent_records[i].timestamp = date_key
                        /\ recent_records[i].sentiment = sentiment})]],
         top_emotions |->
            most_common_five([emotion \in emotions |->
                Cardinality({i \in indices :
                    emotion \in Get(recent_records[i], "emotions", {})})]),
         total_analyzed |-> Len(recent_records)]

\* AnalyticsLayer.get_sentiment_trends
get_sentiment_trends(analytics, now, days) ==
    sentiment_trends(SelectSeq(analytics.sentiment_records,
                               LAMBDA record : record.timestamp > now - days))

\* AnalyticsLayer.get_user_engagement_metrics
get_user_engagement_metrics(analytics, now) ==
    LET user_data == analytics.user_interactions
        total_users == Cardinality(DOMAIN user_data)
        total_messages == SumField(user_data, DOMAIN user_data, "total_messages")
        returning_users == Cardinality({u \in DOMAIN user_data :
                                            user_data[u].total_messages > 1})
        most_engaged == FirstN(MostFirst(user_data, DOMAIN user_data, "total_messages"), 5)
    IN  IF DOMAIN user_data = {} THEN EmptyDict
        ELSE [total_users |-> total_users,
              total_messages |-> total_messages,
              avg_messages_per_user |-> <<total_messages, total_users>>,
              retention_rate |-> <<returning_users * 100, total_users>>,
              returning_users |-> returning_users,
              active_users_7d |-> Cardinality({u \in DOMAIN user_data :
                                    user_data[u].last_interaction > now - 7}),
              most_engaged_users |->
                [i \in 1..Len(most_engaged) |->
                    [user_id |-> most_engaged[i],
                     message_count |-> user_data[most_engaged[i]].total_messages]]]

\* an insight dict; its 'message' text, a rendering of the figure that was
\* tested, is left out
Insight(type, title, priority) == [type |-> type, title |-> title, priority |-> priority]

\* AnalyticsLayer.generate_insights on the four aggregations it asks for
insights(intent_analytics, sentiment_trends_, response_effectiveness, engagement_metrics) ==
    (IF RatGT(<<70, 1>>, Get(response_effectiveness, "overall_success_rate", <<0, 1>>))
     THEN <<Insight("warning", "Low Response Success Rate", "high")>> ELSE <<>>)
    \o (IF RatGT(Get(Get(sentiment_trends_, "sentiment_distribution", EmptyDict),
                     "negative", <<0, 1>>), <<30, 1>>)
        THEN <<Insight("warning", "High Negative Sentiment", "medium")>> ELSE <<>>)
    \o (IF RatGT(<<30, 1>>, Get(engagement_metrics, "retention_rate", <<0, 1>>))
        THEN <<Insight("info", "Low User Retention", "medium")>> ELSE <<>>)
    \o (IF Get(intent_analytics, "most_common_intent", None) # None
        THEN <<Insight("info", "Most Common Intent", "low")>> ELSE <<>>)
    \o (IF Get(response_effectiveness, "failed_responses_count", 0) > 50
        THEN <<Insight("warning", "High Failure Rate", "high")>> ELSE <<>>)

\* AnalyticsLayer.generate_insights
generate_insights(analytics, now) ==
    insights(get_intent_analytics(analytics),
             get_sentiment_trends(analytics, now, DEFAULT_DAYS),
             get_response_effectiveness(analytics),
             get_user_engagement_metrics(analytics, now))

\* the records get_analytics_summary looks at
MAX_SUMMARY_RECORDS == 100

\* strategy_effectiveness of get_analytics_summary, built from the records
\* of response_success[-100:]
summary_effectiveness(records) ==
    [strategy \in {records[i].strategy : i \in 1..Len(records)} |->
        [total |-> Cardinality({i \in 1..Len(records) : records[i].strategy = strategy}),
         successful |-> Cardinality({i \in 1..Len(records) :
                            records[i].strategy = strategy /\ records[i].success}),
         success_rate |->
            <<Cardinality({i \in 1..Len(records) :
                            records[i].strategy = strategy /\ records[i].success}) * 100,
              Cardinality({i \in 1..Len(records) : records[i].strategy = strategy})>>]]

\* StorageLayer.get_analytics_summary
get_analytics_summary(chat, analytics) ==
    LET counts == analytics.intent_counts
        sentiments == LastN(analytics.sentiment_records, MAX_SUMMARY_RECORDS)
    IN  [total_conversations |->
            SumField([u \in DOMAIN chat |-> [n |-> Len(chat[u].conversations)]],
                     DOMAIN chat, "n"),
         total_users |-> Cardinality(DOMAIN chat),
         intent_success_rates |->
            [intent \in {x \in DOMAIN counts : counts[x].total > 0} |->
                [success_rate |-> <<counts[intent].successful * 100, counts[intent].total>>,
                 avg_confidence |-> counts[intent].avg_confidence,
                 total_count |-> counts[intent].total]],
         sentiment_distribution |->
            [sentiment \in {"positive", "negative", "neutral"} |->
                Cardinality({i \in 1..Len(sentiments) : sentiments[i].sentiment = sentiment})],
         strategy_effectiveness |->
            summary_effectiveness(LastN(analytics.response_success, MAX_SUMMARY_RECORDS)),
         failed_responses_count |-> Len(analytics.failed_responses)]

\* AnalyticsLayer.get_dashboard_data
get_dashboard_data(chat, analytics, now, days) ==
    [conversation_stats |-> get_conversation_stats(chat, now, days),
     intent_analytics |-> get_intent_analytics(analytics),
     sentiment_trends |-> get_sentiment_trends(analytics, now, days),
     response_effectiveness |-> get_response_effectiveness(analytics),
     user_engagement |-> get_user_engagement_metrics(analytics, now),
     insights |-> generate_insights(analytics, now),
     summary |-> get_analytics_summary(chat, analytics)]

\* json.load of data/analytics.json: every defaultdict comes back as a dict
load_analytics_data(file) ==
    IF file.valid
    THEN [file.data EXCEPT !.user_interactions =
            [u \in DOMAIN @ |-> [@[u] EXCEPT !.intents = [@ EXCEPT !.defaultdict = FALSE]]]]
    ELSE EmptyAnalyticsData

\* StorageLayer._load_chat_history
load_chat_history(file) == IF file.valid THEN file.data ELSE EmptyDict

\* LearningLayer._load_learning_data
load_learning_data(file) == IF file.valid THEN file.data ELSE EmptyLearningData

(***************************************************************************)
(* backend/core.py                                                         *)
(***************************************************************************)
\* _evaluate_response_success asking a fallback for more than 0.6
evaluate_response_success_StrictFallback(generated, strategy_decision) ==
    \/ generated.confidence > 80
    \/ strategy_decision.strategy = "faq"
    \/ strategy_decision.strategy = "rule_based" /\ generated.confidence > 60
    \/ strategy_decision.strategy = "generative_ai" /\ generated.confidence > 70
    \/ strategy_decision.strategy = "fallback" /\ generated.confidence > 60

\* ChatbotCore._evaluate_response_success
evaluate_response_success(generated, strategy_decision) ==
    \/ generated.confidence > 80
    \/ strategy_decision.strategy = "faq"
    \/ strategy_decision.strategy = "rule_based" /\ generated.confidence > 60
    \/ strategy_decision.strategy = "generative_ai" /\ generated.confidence > 70
    \/ strategy_decision.strategy = "fallback" /\ generated.confidence > 50

\* the response of the except branch reporting the turn as a success
fallback_response_AsSuccess(error) ==
    [text |-> "I apologize, but I'm having trouble processing your message right now. Could you please try rephrasing?",
     intent |-> "error",
     intent_confidence |-> 0,
     sentiment |-> [sentiment |-> "neutral", polarity |-> 0],
     strategy |-> "error_fallback",
     confidence |-> 30,
     success |-> TRUE,
     error |-> error]

\* the response of the except branch of process_message
fallback_response(error) ==
    [text |-> "I apologize, but I'm having trouble processing your message right now. Could you please try rephrasing?",
     intent |-> "error",
     intent_confidence |-> 0,
     sentiment |-> [sentiment |-> "neutral", polarity |-> 0],
     strategy |-> "error_fallback",
     confidence |-> 30,
     success |-> FALSE,
     error |-> error]

\* the dict process_message returns when no layer raised
final_response(nlp_result, sentiment_result, generated, success) ==
    [text |-> generated.text,
     intent |-> nlp_result.intent,
     intent_confidence |-> nlp_result.intent_confidence,
     sentiment |-> sentiment_result,
     strategy |-> generated.strategy,
     confidence |-> generated.confidence,
     success |-> success]

\* process_message from the learning layer on: layer 8, the update of the
\* context and the final response, or the except branch when
\* track_conversation has raised; chat and tracked are what layers 6 and 7
\* leave
process_learning(core, user_message, user_id, env, now, nlp_result, sentiment_result, strategy_decision, generated, success, chat, tracked) ==
    IF tracked.raised
    THEN [core |-> [core EXCEPT !.chat_data = chat, !.analytics_data = tracked.data],
          saved |-> {"chat"},
          response |-> fallback_response("'" \o nlp_result.intent \o "'"),
          stages |-> <<"preprocess", "nlp", "sentiment", "decide", "generate",
                       "store", "track">>,
          raised |-> "track",
          intent |-> nlp_result.intent,
          context |-> nlp_result.context,
          decision |-> strategy_decision]
    ELSE [core |-> [chat_data |-> chat,
                    analytics_data |-> tracked.data,
                    learning_data |->
                        learn_from_conversation(core.learning_data, user_id, user_message,
                            generated, nlp_result.intent, sentiment_result, success, now),
                    context_memory |->
                        update_context(core.context_memory, user_id, user_message,
                                       generated.text, nlp_result.intent)],
          saved |-> {"chat", "analytics", "learning"},
          response |-> final_response(nlp_result, sentiment_result, generated, success),
          stages |-> <<"preprocess", "nlp", "sentiment", "decide", "generate",
                       "store", "track", "learn", "context">>,
          raised |-> None,
          intent |-> nlp_result.intent,
          context |-> nlp_result.context,
          decision |-> strategy_decision]

\* layers 6 and 7 with the conversation stored a second time
process_storage_Twice(core, user_message, user_id, env, now, nlp_result, sentiment_result, strategy_decision, generated, success) ==
    process_learning(core, user_message, user_id, env, now, nlp_result, sentiment_result,
        strategy_decision, generated, success,
        store_conversation(
            store_conversation(core.chat_data, user_id, user_message, generated.text,
                               nlp_result.intent, sentiment_result, success, now),
            user_id, user_message, generated.text, nlp_result.intent, sentiment_result,
            success, now),
        track_conversation(core.analytics_data, user_id, nlp_result.intent,
                           sentiment_result, generated.strategy, success, now))

\* process_message from the storage layer on: layers 6 and 7 with the
\* success the response was given
process_storage(core, user_message, user_id, env, now, nlp_result, sentiment_result, strategy_decision, generated, success) ==
    process_learning(core, user_message, user_id, env, now, nlp_result, sentiment_result,
        strategy_decision, generated, success,
        store_conversation(core.chat_data, user_id, user_message, generated.text,
                           nlp_result.intent, sentiment_result, success, now),
        track_conversation(core.analytics_data, user_id, nlp_result.intent,
                           sentiment_result, generated.strategy, success, now))

\* process_message from the response layer on: layer 5 and the evaluation
\* of the response
process_generation(core, user_message, user_id, env, now, nlp_result, sentiment_result, strategy_decision, generated) ==
    process_storage(core, user_message, user_id, env, now, nlp_result, sentiment_result,
        strategy_decision, generated,
        evaluate_response_success(generated, strategy_decision))

\* process_message from the decision engine on: layer 4, then layer 5 on
\* its decision
process_decision(core, user_message, user_id, env, now, nlp_result, sentiment_result, strategy_decision) ==
    process_generation(core, user_message, user_id, env, now, nlp_result,
        sentiment_result, strategy_decision,
        generate_response(strategy_decision, user_message, nlp_result.intent,
                          sentiment_result, nlp_result.context, env.api, env.draws))

\* process_message from the sentiment layer on: layer 3, or the except
\* branch when TextBlob raises
process_sentiment(core, user_message, user_id, env, now, nlp_result, sentiment_result) ==
    IF env.textblob.raised
    THEN [core |-> core,
          saved |-> {},
          response |-> fallback_response("sentiment analysis failed"),
          stages |-> <<"preprocess", "nlp", "sentiment">>,
          raised |-> "sentiment",
          intent |-> nlp_result.intent,
          context |-> nlp_result.context,
          decision |-> [strategy |-> None]]
    ELSE process_decision(core, user_message, user_id, env, now, nlp_result,
            sentiment_result,
            decide_response_strategy(user_message, nlp_result.intent,
                nlp_result.intent_confidence, sentiment_result, nlp_result.context))

\* ChatbotCore.process_message on the layers' data (core), in the
\* environment env of the turn: what the intent model, TextBlob, the two
\* generation services, the random generator and the disk do.  It gives the
\* layers' data after the call, the files saved, the dict returned and the
\* course of the call: the stages entered and the one that raised.
process_message(core, user_message, user_id, env, now) ==
    process_sentiment(core, user_message, user_id, env, now,
        nlp_process(core.context_memory, preprocess_cached(user_message).cleaned,
                    user_id, env.ml),
        analyze(user_message, env.textblob.polarity))

\* StorageLayer.get_user_history: conversations[-limit:]
get_user_history(chat, user_id, limit) ==
    IF user_id \notin DOMAIN chat THEN <<>>
    ELSE IF chat[user_id].conversations # <<>>
         THEN LastN(chat[user_id].conversations, limit)
         ELSE <<>>

\* ChatbotCore.get_conversation_history
get_conversation_history(core, user_id, limit) ==
    get_user_history(core.chat_data, user_id, limit)

\* the rating of a feedback request: POST /api/feedback passes on whatever
\* JSON value the request carries, a number or not
Rating(value) == [number |-> TRUE, value |-> value]
NotANumber == [number |-> FALSE, value |-> 0]
Ratings == {Rating(2), Rating(3), NotANumber}

\* the response the learning layer is given with a feedback
feedback_response(rating) == [strategy |-> "feedback", confidence |-> rating.value * 20]

\* process_feedback taking a rating above 3 for a success
process_feedback_AboveThree(core, session_id, rating, now) ==
    LET history == get_conversation_history(core, session_id, 1)
        last_conversation == history[Len(history)]
    IN  IF history = <<>>
        THEN [returned |-> FALSE, caught |-> None, learning_data |-> core.learning_data,
              saved |-> {}]
        ELSE IF ~rating.number
        THEN [returned |-> FALSE, caught |-> "TypeError",
              learning_data |-> core.learning_data, saved |-> {}]
        ELSE [returned |-> TRUE, caught |-> None,
              learning_data |->
                learn_from_conversation(core.learning_data, session_id,
                    last_conversation.user_message, feedback_response(rating),
                    last_conversation.intent, last_conversation.sentiment,
                    rating.value > 3, now),
              saved |-> {"learning"}]

\* ChatbotCore.process_feedback: the value returned, the exception the
\* except branch caught, the learning corpus after the call and the files
\* saved
process_feedback(core, session_id, rating, now) ==
    LET history == get_conversation_history(core, session_id, 1)
        last_conversation == history[Len(history)]
    IN  IF history = <<>>
        THEN [returned |-> FALSE, caught |-> None, learning_data |-> core.learning_data,
              saved |-> {}]
        ELSE IF ~rating.number
        THEN [returned |-> FALSE, caught |-> "TypeError",
              learning_data |-> core.learning_data, saved |-> {}]
        ELSE [returned |-> TRUE, caught |-> None,
              learning_data |->
                learn_from_conversation(core.learning_data, session_id,
                    last_conversation.user_message, feedback_response(rating),
                    last_conversation.intent, last_conversation.sentiment,
                    rating.value >= 3, now),
              saved |-> {"learning"}]

\* the request threads: Flask's development server handles every request
\* in a thread of its own, all of them calling the one ChatbotCore
MaxThreads == 2
Threads == 1..MaxThreads

\* no query has been made since the last change of the data
NoReport == [op |-> None]

\* no process_message call has been made and no file exists
IdleTurn ==
    /\ chat_data = EmptyDict
    /\ chat_file = [valid |-> FALSE, data |-> EmptyDict]
    /\ analytics_data = EmptyAnalyticsData
    /\ analytics_file = [valid |-> FALSE, data |-> EmptyAnalyticsData]
    /\ context_memory = EmptyDict
    /\ turn = [user_message |-> ""]
    /\ response = [strategy |-> None]
    /\ turns = 0
    /\ restarts = 0
    /\ report = NoReport
    /\ workers = [t \in Threads |-> [pc |-> "idle"]]

(***************************************************************************)
(* The learning layer called on its own                                    *)
(***************************************************************************)
MaxFreeCalls == 2
LongCalls == 505
SteadyCalls == 12

FreeIntents == {"compliment", "question"}

LongIntents == <<"greeting", "goodbye", "compliment", "help", "question", "general",
                 "complaint">>

NeutralSentiment == [sentiment |-> "neutral", emotions |-> {}, polarity |-> 0]

\* the i-th turn of the long session
LongCall(i) ==
    [user_id |-> "u1",
     user_message |-> LongMessages[(i % Len(LongMessages)) + 1],
     bot_response |-> [strategy |-> "rule_based", confidence |-> 80],
     intent |-> LongIntents[(i % Len(LongIntents)) + 1],
     sentiment |-> NeutralSentiment,
     success |-> (i % 3 # 0),
     days |-> IF i % 5 = 0 THEN 1 ELSE 0,
     write_ok |-> (i % 4 # 1)]

IdleLearn ==
    /\ learning_data = EmptyLearningData
    /\ learning_file = [valid |-> FALSE, data |-> EmptyLearningData]
    /\ today = 1
    /\ learn_args = [user_message |-> ""]
    /\ learn_calls = 0
    /\ evicted_pairs = {}
    /\ patterns_given = EmptyDict

InitLearn ==
    /\ pc = "init"
    /\ IdleDecide
    /\ IdleLearn
    /\ IdleTurn
    /\ session \in {"free", "long", "steady", "failing"}

\* the (pattern, intent) pairs with a record
Pairs(discoveries) ==
    {<<discoveries[i].pattern, discoveries[i].intent>> : i \in 1..Len(discoveries)}

\* the patterns an intent was given so far, one more call counted
Given(given, intent, success, patterns) ==
    DictSet(given, intent,
        [successful |-> Get(given, intent, [successful |-> 0, failed |-> 0]).successful
                            + (IF success THEN Len(patterns) ELSE 0),
         failed |-> Get(given, intent, [successful |-> 0, failed |-> 0]).failed
                        + (IF success THEN 0 ELSE Len(patterns))])

\* the state after a learn_from_conversation call that left the data ld
Learned(call, ld) ==
    /\ pc' = "learn"
    /\ today' = today + call.days
    /\ learning_data' = ld
    /\ learning_file' \in save_learning_data(ld, learning_file, call.write_ok)
    /\ learn_args' = call
    /\ learn_calls' = learn_calls + 1
    /\ evicted_pairs' = evicted_pairs \cup
            (Pairs(learning_data.pattern_discoveries) \ Pairs(ld.pattern_discoveries))
    /\ patterns_given' = Given(patterns_given, call.intent, call.success,
                               extract_patterns_cached(call.user_message))
    /\ UNCHANGED <<decide_vars, session, turn_vars>>

\* one learn_from_conversation call, days after the previous one
LearnCall(call) ==
    Learned(call,
            learn_from_conversation(learning_data, call.user_id, call.user_message,
                call.bot_response, call.intent, call.sentiment, call.success,
                today + call.days))

LearnFree ==
    /\ session = "free"
    /\ learn_calls < MaxFreeCalls
    /\ \E user_message \in FreeMessages, intent \in FreeIntents, success \in BOOLEAN,
          days \in {0, 1}, write_ok \in BOOLEAN :
        LearnCall([user_id |-> "u1", user_message |-> user_message,
                   bot_response |-> [strategy |-> "faq", confidence |-> 95],
                   intent |-> intent, sentiment |-> NeutralSentiment,
                   success |-> success, days |-> days, write_ok |-> write_ok])

LearnLong ==
    /\ session = "long"
    /\ learn_calls < LongCalls
    /\ LearnCall(LongCall(learn_calls))

\* the turn the steady session and the failing session repeat
SteadyCall(success) ==
    [user_id |-> "u1",
     user_message |-> "what is data science",
     bot_response |-> [strategy |-> "rule_based", confidence |-> 80],
     intent |-> "question",
     sentiment |-> NeutralSentiment,
     success |-> success,
     days |-> 0,
     write_ok |-> TRUE]

LearnSteady ==
    /\ session \in {"steady", "failing"}
    /\ learn_calls < SteadyCalls
    /\ LearnCall(SteadyCall(session = "steady"))

\* the state after a generate_optimization_suggestions call that returned
\* the suggestions
Suggested(suggestions, write_ok) ==
    /\ pc' = "suggest"
    /\ learning_data' = generate_optimization_suggestions(learning_data, suggestions)
    /\ learning_file' \in save_learning_data(
            generate_optimization_suggestions(learning_data, suggestions),
            learning_file, write_ok)
    /\ report' = [op |-> "generate_optimization_suggestions", result |-> suggestions,
                  write_ok |-> write_ok]
    /\ UNCHANGED <<decide_vars, today, learn_args, learn_calls, session, evicted_pairs,
                   patterns_given, chat_data, chat_file, analytics_data, analytics_file,
                   context_memory, turn, response, turns, restarts, workers>>

\* one generate_optimization_suggestions call (optimize_system or
\* get_learning_insights); the free session and the long session ask once
\* their turns are over
GenerateOptimizationSuggestions ==
    /\ session = "free" => learn_calls = MaxFreeCalls
    /\ session = "long" => learn_calls = LongCalls
    /\ \E write_ok \in BOOLEAN :
        Suggested(optimization_suggestions(learning_data), write_ok)

\* one improve_intent_classifier call (optimize_system), with the training
\* raising or not
ImproveIntentClassifier ==
    /\ session = "steady"
    /\ pc' = "improve"
    /\ \E train_raises \in BOOLEAN :
        report' = [op |-> "improve_intent_classifier", train_raises |-> train_raises,
                   returned |-> improve_intent_classifier(combined_corpus(learning_data),
                                                          train_raises)]
    /\ UNCHANGED <<decide_vars, learn_vars, chat_data, chat_file, analytics_data,
                   analytics_file, context_memory, turn, response, turns, restarts, workers>>

NextLearn ==
    \/ LearnFree
    \/ LearnLong
    \/ LearnSteady
    \/ GenerateOptimizationSuggestions
    \/ ImproveIntentClassifier

SpecLearn == InitLearn /\ [][NextLearn]_vars

(***************************************************************************)
(* Inputs of the decision engine                                           *)
(***************************************************************************)
MaxHistory == 3

Intents == {"greeting", "goodbye", "compliment", "help", "question", "general", "complaint"}

\* intent confidences, in hundredths, around every threshold of the engine
Confidences == {30, 40, 60, 65, 70, 75, 90, 95}

Sentiments == {
    [sentiment |-> "neutral", emotions |-> {}],
    [sentiment |-> "negative", emotions |-> {"sadness"}],
    [sentiment |-> "neutral", emotions |-> {"anger"}] }

HistoryEntry == [user |-> "hello", bot |-> "Hello! How can I help you today?", intent |-> "greeting"]

\* None, {}, and NLPLayer.get_context dicts with 0..MaxHistory prior turns
Contexts ==
    {[tag |-> "None"], [tag |-> "dict"]} \cup
    {[tag |-> "dict", history |-> [i \in 1..n |-> HistoryEntry],
      current_topic |-> None] : n \in 0..MaxHistory}

(***************************************************************************)
(* The decision engine called on its own                                   *)
(***************************************************************************)
InitDecide ==
    /\ pc = "init"
    /\ IdleDecide
    /\ IdleLearn
    /\ IdleTurn
    /\ session = "free"

Decide ==
    /\ pc = "init"
    /\ \E text \in DecideTexts, intent \in Intents, confidence \in Confidences,
          sentiment \in Sentiments, context \in Contexts :
        /\ pc' = "decide"
        /\ decide_args' = [text |-> text, intent |-> intent, confidence |-> confidence,
                           sentiment |-> sentiment, context |-> context]
        /\ decision' = decide_response_strategy(text, intent, confidence, sentiment, context)
        /\ UNCHANGED <<learn_vars, turn_vars>>

\* the caller has consumed the decision; the engine keeps no state
DecideReturn ==
    /\ pc = "decide"
    /\ pc' = "init"
    /\ decide_args' = [text |-> ""]
    /\ decision' = [strategy |-> None]
    /\ UNCHANGED <<learn_vars, turn_vars>>

NextDecide == Decide \/ DecideReturn

SpecDecide == InitDecide /\ [][NextDecide]_vars

(***************************************************************************)
(* The message pipeline: turns of process_message and process restarts     *)
(***************************************************************************)
MaxTurns == 2
MaxRestarts == 1
ChatTurns == 4
MaxFeedbacks == 1

\* the callers of a session: one user who sends every message in every
\* environment ("single"), two users who share the service and send
\* two of the messages in two of the environments ("shared"), or one user
\* in a longer conversation of two of the messages ("chat")
SessionUsers(s) == IF s = "shared" THEN Users ELSE {"u1"}
SessionMessages(s) ==
    CASE s = "shared" -> {"hello", "what is deep learning"}
      [] s = "chat" -> {"hello", "python"}
      [] OTHER -> TurnMessages
SessionEnvironments(s) ==
    IF s \in {"shared", "chat"}
    THEN {BaseEnv, [BaseEnv EXCEPT !.textblob = [raised |-> TRUE]]}
    ELSE Environments
SessionTurns(s) == IF s = "chat" THEN ChatTurns ELSE MaxTurns

InitTurn ==
    /\ pc = "init"
    /\ IdleDecide
    /\ IdleLearn
    /\ IdleTurn
    /\ session \in {"single", "shared", "chat"}

\* the layers' data a process_message call starts from
Core ==
    [chat_data |-> chat_data, analytics_data |-> analytics_data,
     learning_data |-> learning_data, context_memory |-> context_memory]

\* the state after a process_message call with the given result: the
\* layers' data, and the files of the layers that saved
Processed(user_id, user_message, env, result) ==
    /\ pc' = "turn"
    /\ today' = today + env.days
    /\ chat_data' = result.core.chat_data
    /\ analytics_data' = result.core.analytics_data
    /\ learning_data' = result.core.learning_data
    /\ context_memory' = result.core.context_memory
    /\ chat_file' = IF "chat" \in result.saved
                    THEN WriteFile(result.core.chat_data, chat_file, env.disk, EmptyDict)
                    ELSE chat_file
    /\ analytics_file' = IF "analytics" \in result.saved
                         THEN WriteFile(result.core.analytics_data, analytics_file,
                                        env.disk, EmptyAnalyticsData)
                         ELSE analytics_file
    /\ learning_file' = IF "learning" \in result.saved
                        THEN WriteFile(result.core.learning_data, learning_file,
                                       env.disk, EmptyLearningData)
                        ELSE learning_file
    /\ turn' = [user_id |-> user_id, user_message |-> user_message, env |-> env,
                stages |-> result.stages, raised |-> result.raised,
                intent |-> result.intent, context |-> result.context,
                decision |-> result.decision]
    /\ response' = result.response
    /\ turns' = turns + 1
    /\ report' = NoReport
    /\ UNCHANGED <<decide_vars, learn_args, learn_calls, session, evicted_pairs,
                   patterns_given, restarts,
                   workers>>

\* one process_message call, env.days after the previous one
Turn ==
    /\ turns < SessionTurns(session)
    /\ \E user_id \in SessionUsers(session), user_message \in SessionMessages(session),
          env \in SessionEnvironments(session) :
        Processed(user_id, user_message, env,
                  process_message(Core, user_message, user_id, env, today + env.days))

\* the serving process is stopped and started again: every layer loads its
\* file, and the conversation contexts are gone
Restart ==
    /\ pc = "turn"
    /\ restarts < MaxRestarts
    /\ pc' = "restart"
    /\ chat_data' = load_chat_history(chat_file)
    /\ analytics_data' = load_analytics_data(analytics_file)
    /\ learning_data' = load_learning_data(learning_file)
    /\ context_memory' = EmptyDict
    /\ turn' = [user_message |-> ""]
    /\ response' = [strategy |-> None]
    /\ restarts' = restarts + 1
    /\ report' = NoReport
    /\ UNCHANGED <<decide_vars, chat_file, analytics_file, learning_file, today, workers,
                   learn_args, learn_calls, session, evicted_pairs, patterns_given, turns>>

\* the analytics layer is asked for the effectiveness of the strategies
GetResponseEffectiveness ==
    /\ report.op # "get_response_effectiveness"
    /\ report' = [op |-> "get_response_effectiveness",
                  result |-> get_response_effectiveness(analytics_data)]
    /\ UNCHANGED <<pc, decide_vars, learn_vars, chat_data, chat_file, analytics_data,
                   analytics_file, context_memory, turn, response, turns, restarts,
                   workers>>

\* the analytics layer is asked for the dashboard (GET /api/analytics) in
\* the course of a conversation
GetDashboardData ==
    /\ session = "chat"
    /\ report.op # "get_dashboard_data"
    /\ report' = [op |-> "get_dashboard_data",
                  result |-> get_dashboard_data(chat_data, analytics_data, today,
                                                DEFAULT_DAYS)]
    /\ UNCHANGED <<pc, decide_vars, learn_vars, chat_data, chat_file, analytics_data,
                   analytics_file, context_memory, turn, response, turns, restarts,
                   workers>>

\* the limits a history is asked with: none of it, the last conversation,
\* or the default
DEFAULT_LIMIT == 10
HistoryLimits == {0, 1, DEFAULT_LIMIT}

\* a session's history is asked for (GET /api/history/<session_id>) in the
\* course of a conversation
GetConversationHistory ==
    /\ session = "chat"
    /\ report.op # "get_conversation_history"
    /\ \E session_id \in Users, limit \in HistoryLimits :
        report' = [op |-> "get_conversation_history", session_id |-> session_id,
                   limit |-> limit,
                   history |-> get_conversation_history(Core, session_id, limit)]
    /\ UNCHANGED <<pc, decide_vars, learn_vars, chat_data, chat_file, analytics_data,
                   analytics_file, context_memory, turn, response, turns, restarts,
                   workers>>

\* the feedbacks the learning corpus holds
FeedbackGiven(ld) ==
    Cardinality({i \in 1..Len(ld.response_feedback) :
                    ld.response_feedback[i].strategy = "feedback"})

\* the state after a process_feedback call with the given result
Rated(session_id, rating, result) ==
    /\ learning_data' = result.learning_data
    /\ learning_file' = IF "learning" \in result.saved
                        THEN WriteFile(result.learning_data, learning_file, "ok",
                                       EmptyLearningData)
                        ELSE learning_file
    /\ report' = [op |-> "process_feedback", session_id |-> session_id,
                  rating |-> rating, returned |-> result.returned,
                  caught |-> result.caught]
    /\ UNCHANGED <<pc, decide_vars, today, learn_args, learn_calls, session,
                   evicted_pairs, patterns_given, chat_data, chat_file, analytics_data,
                   analytics_file, context_memory, turn, response, turns, restarts,
                   workers>>

\* at the end of the shared session a user rates the last answer
\* (POST /api/feedback)
ProcessFeedback ==
    /\ session = "shared"
    /\ turns = MaxTurns
    /\ report.op # "process_feedback"
    /\ FeedbackGiven(learning_data) < MaxFeedbacks
    /\ \E session_id \in Users, rating \in Ratings :
        Rated(session_id, rating, process_feedback(Core, session_id, rating, today))

NextTurn ==
    \/ Turn
    \/ Restart
    \/ GetResponseEffectiveness
    \/ GetDashboardData
    \/ GetConversationHistory
    \/ ProcessFeedback

SpecTurn == InitTurn /\ [][NextTurn]_vars

(***************************************************************************)
(* Concurrent turns: what process_message does to the counters, between    *)
(* the points where the interpreter can suspend a thread.  A thread can be *)
(* suspended wherever it makes a call, so a test and the assignment that   *)
(* depends on it are two steps when a call lies between them.  No layer    *)
(* takes a lock.                                                           *)
(***************************************************************************)
\* the user entry store_conversation creates
FreshUser(now) ==
    [conversations |-> <<>>,
     user_profile |-> [first_interaction |-> now, total_messages |-> 0,
                       preferred_intents |-> EmptyDict, sentiment_history |-> <<>>]]

\* the user entry track_conversation creates
FreshInteractions(now) ==
    [total_messages |-> 0, first_interaction |-> now, last_interaction |-> now,
     intents |-> [defaultdict |-> TRUE, counts |-> EmptyDict],
     avg_sentiment |-> <<0, 1>>, sentiment_sum |-> 0]

\* the first record of the performance history with the date, as the loop
\* of _track_model_performance finds it; 0 when there is none
TodayIndex(history, now) ==
    LET found == {i \in 1..Len(history) : history[i].date = now}
    IN  IF found = {} THEN 0 ELSE CHOOSE i \in found : \A j \in found : i <= j

\* the record after intent_perf[intent]['total'] += 1
CountIntent(record, intent) ==
    [record EXCEPT !.intent_performance =
        DictSet(@, intent,
                [total |-> (IF intent \in DOMAIN @ THEN @[intent].total ELSE 0) + 1,
                 successful |-> IF intent \in DOMAIN @ THEN @[intent].successful ELSE 0])]

InitConcurrent ==
    /\ pc = "init"
    /\ IdleDecide
    /\ IdleLearn
    /\ IdleTurn
    /\ session = "concurrent"

\* a request arrives: its thread enters process_message
Begin(t) ==
    /\ workers[t].pc = "idle"
    /\ \E user_id \in Users, intent \in {"greeting", "question"} :
        workers' = [workers EXCEPT ![t] = [pc |-> "store", user_id |-> user_id,
                                           intent |-> intent, found |-> 0]]
    /\ pc' = "concurrent"
    /\ UNCHANGED <<decide_vars, learn_vars, chat_data, chat_file, analytics_data,
                   analytics_file, context_memory, turn, response, turns, restarts,
                   report>>

\* store_conversation: the user entry is created when missing and
\* profile['total_messages'] += 1
Store(t) ==
    /\ workers[t].pc = "store"
    /\ chat_data' =
        [DictSet(chat_data, workers[t].user_id,
                 Get(chat_data, workers[t].user_id, FreshUser(today)))
            EXCEPT ![workers[t].user_id].user_profile.total_messages = @ + 1]
    /\ workers' = [workers EXCEPT ![t].pc = "track_count"]
    /\ UNCHANGED <<pc, decide_vars, learn_vars, chat_file, analytics_data, analytics_file,
                   context_memory, turn, response, turns, restarts,
                   report>>

\* track_conversation: total_conversations += 1 and the test
\* user_id not in user_interactions; the entry of a new user is then built
\* with two calls of datetime.now()
TrackCount(t) ==
    /\ workers[t].pc = "track_count"
    /\ analytics_data' = [analytics_data EXCEPT !.total_conversations = @ + 1]
    /\ workers' = [workers EXCEPT ![t].pc = "track_user",
            ![t].found = IF workers[t].user_id \in DOMAIN analytics_data.user_interactions
                         THEN 1 ELSE 0]
    /\ UNCHANGED <<pc, decide_vars, learn_vars, chat_data, chat_file, analytics_file,
                   context_memory, turn, response, turns, restarts,
                   report>>

\* track_conversation: the entry built for a new user is assigned, over
\* whatever is there by now, and user_data['total_messages'] += 1
TrackUser(t) ==
    /\ workers[t].pc = "track_user"
    /\ analytics_data' =
        [analytics_data EXCEPT !.user_interactions =
            DictSet(@, workers[t].user_id,
                    [(IF workers[t].found = 1 THEN @[workers[t].user_id]
                      ELSE FreshInteractions(today))
                        EXCEPT !.total_messages = @ + 1])]
    /\ workers' = [workers EXCEPT ![t].pc = "perf_find"]
    /\ UNCHANGED <<pc, decide_vars, learn_vars, chat_data, chat_file, analytics_file,
                   context_memory, turn, response, turns, restarts,
                   report>>

\* _track_model_performance: the loop that looks for today's record; a new
\* record is then built with a call of defaultdict
PerfFind(t) ==
    /\ workers[t].pc = "perf_find"
    /\ workers' = [workers EXCEPT ![t].pc = "perf_update",
            ![t].found = TodayIndex(learning_data.model_performance_history, today)]
    /\ UNCHANGED <<pc, decide_vars, learn_vars, chat_data, chat_file, analytics_data,
                   analytics_file, context_memory, turn, response, turns, restarts,
                   report>>

\* _track_model_performance: the record built when none was found is
\* appended, the intent is counted in the thread's record, and the call
\* returns
PerfUpdate(t) ==
    /\ workers[t].pc = "perf_update"
    /\ learning_data' =
        [learning_data EXCEPT !.model_performance_history =
            IF workers[t].found = 0
            THEN Append(@, CountIntent([date |-> today, intent_performance |-> EmptyDict,
                                        overall_accuracy |-> <<0, 1>>], workers[t].intent))
            ELSE [@ EXCEPT ![workers[t].found] = CountIntent(@, workers[t].intent)]]
    /\ workers' = [workers EXCEPT ![t].pc = "done"]
    /\ UNCHANGED <<pc, decide_vars, learning_file, today, learn_args, learn_calls, session,
                   evicted_pairs, patterns_given, chat_data, chat_file, analytics_data,
                   analytics_file,
                   context_memory, turn, response, turns, restarts,
                   report>>

NextConcurrent ==
    \E t \in Threads :
        \/ Begin(t)
        \/ Store(t)
        \/ TrackCount(t)
        \/ TrackUser(t)
        \/ PerfFind(t)
        \/ PerfUpdate(t)

SpecConcurrent == InitConcurrent /\ [][NextConcurrent]_vars

(***************************************************************************)
(* The intent classifier called on its own, as src/test_intent.py does     *)
(***************************************************************************)
\* question_starters of classify_intent
QuestionStarters == {"what is", "what are", "how does", "how do", "tell me about",
                     "explain", "describe", "define"}

\* the topics asked about
Topics == {"machine learning", "artificial intelligence", "data science", "python",
           "statistics"}

\* the greetings of the test cases
PlainGreetings == {"hello", "hi there"}

\* the messages classified: every starter with every topic, and the greetings
ClassifyTexts == {starter \o " " \o topic : starter \in QuestionStarters, topic \in Topics}
                    \cup PlainGreetings

InitClassify ==
    /\ pc = "init"
    /\ IdleDecide
    /\ IdleLearn
    /\ IdleTurn
    /\ session = "classify"

\* one classify_intent call, as the tests make it
ClassifyIntent ==
    /\ session = "classify"
    /\ \E text \in ClassifyTexts, ml \in {env.ml : env \in Environments} :
        report' = [op |-> "classify_intent", text |-> text, ml |-> ml,
                   result |-> classify_intent(text, ml)]
    /\ pc' = "classify"
    /\ UNCHANGED <<decide_vars, learn_vars, chat_data, chat_file, analytics_data,
                   analytics_file, context_memory, turn, response, turns, restarts, workers>>

NextClassify == ClassifyIntent

SpecClassify == InitClassify /\ [][NextClassify]_vars

(***************************************************************************)
(* The analytics layer on its own: conversations tracked with either       *)
(* outcome, and the two reports on the strategies                          *)
(***************************************************************************)
MaxTracked == 4

TrackedStrategies == {"faq", "fallback"}

InitTrack ==
    /\ pc = "init"
    /\ IdleDecide
    /\ IdleLearn
    /\ IdleTurn
    /\ session = "track"

\* one track_conversation call of the analytics layer, with the outcome the
\* caller gives
TrackConversation ==
    /\ session = "track"
    /\ analytics_data.total_conversations < MaxTracked
    /\ \E response_strategy \in TrackedStrategies, success \in BOOLEAN :
        LET tracked == track_conversation(analytics_data, "u1", "general", NeutralSentiment,
                                          response_strategy, success, today)
        IN  /\ analytics_data' = tracked.data
            /\ analytics_file' = WriteFile(tracked.data, analytics_file, "ok",
                                           EmptyAnalyticsData)
    /\ pc' = "track"
    /\ report' = NoReport
    /\ UNCHANGED <<decide_vars, learn_vars, chat_data, chat_file, context_memory, turn,
                   response, turns, restarts, workers>>

\* the storage layer is asked for its summary
GetAnalyticsSummary ==
    /\ session = "track"
    /\ report.op # "get_analytics_summary"
    /\ report' = [op |-> "get_analytics_summary",
                  result |-> get_analytics_summary(chat_data, analytics_data)]
    /\ UNCHANGED <<pc, decide_vars, learn_vars, chat_data, chat_file, analytics_data,
                   analytics_file, context_memory, turn, response, turns, restarts,
                   workers>>

NextTrack == TrackConversation \/ GetAnalyticsSummary \/ GetResponseEffectiveness

SpecTrack == InitTrack /\ [][NextTrack]_vars

(***************************************************************************)
(* Claims on the decision engine                                           *)
(***************************************************************************)
STRATEGIES == {"faq", "rule_based", "generative_ai", "fallback"}

\* the three ways a text matches the FAQ, stated on the normalised text
ExactKey(text) ==
    LET t == Strip(Lower(text))
    IN  \E i \in 1..Len(FAQ_DATABASE) : FAQ_DATABASE[i][1] = t
SimilarKey(text) ==
    LET w1 == WordSet(Strip(Lower(text)))
    IN  \E i \in 1..Len(FAQ_DATABASE) :
            LET w2 == WordSet(FAQ_DATABASE[i][1])
            IN  w1 # {} /\ 2 * Cardinality(w1 \cap w2) > Cardinality(w1 \cup w2)
KeyTermHit(text) ==
    LET t == Strip(Lower(text))
    IN  \E term \in {"ai model", "inc", "rahul", "gandhi"} : Contains(t, term)
FaqMatch(text) == ExactKey(text) \/ SimilarKey(text) \/ KeyTermHit(text)

HistoryLen(context) ==
    IF "history" \in DOMAIN context THEN Len(context.history) ELSE 0

\* C1: every decide_response_strategy call, whatever its text, intent,
\* confidence, sentiment and context (None and {} included), returns one
\* decision dict whose strategy is faq, rule_based, generative_ai or fallback.
C1_DecisionTotal ==
    pc = "decide" =>
        /\ {"strategy", "confidence", "reasoning", "fallback_needed"} \subseteq DOMAIN decision
        /\ decision.strategy \in STRATEGIES

\* C1 witness: an absent context and an input that passes every earlier step
C1_Witness ==
    /\ pc = "decide"
    /\ decide_args.context.tag = "None"
    /\ decision.strategy = "fallback"

\* C2: a text that matches the FAQ (exact key, word-set similarity above
\* 0.5, or key-term substring) is always decided as faq.
C2_FaqWins ==
    (pc = "decide" /\ FaqMatch(decide_args.text)) => decision.strategy = "faq"

\* C2 witness: a key-term match on an input that is also eligible for the
\* rule-based step and has a long context
C2_Witness ==
    /\ pc = "decide"
    /\ KeyTermHit(decide_args.text) /\ ~ExactKey(decide_args.text) /\ ~SimilarKey(decide_args.text)
    /\ decide_args.intent = "greeting" /\ decide_args.confidence > 70
    /\ HistoryLen(decide_args.context) > 2
    /\ decision.strategy = "faq"

\* C3: without an FAQ match the decision is rule_based exactly when (intent
\* is greeting, goodbye or compliment and confidence > 0.7) or confidence <
\* 0.4, also when the context holds more than 2 turns; 'hello' with intent
\* greeting and confidence 0.95 gives rule_based.
C3_RuleBasedIff ==
    (pc = "decide" /\ ~FaqMatch(decide_args.text)) =>
        /\ decision.strategy = "rule_based" <=>
                \/ /\ decide_args.intent \in {"greeting", "goodbye", "compliment"}
                   /\ decide_args.confidence > 70
                \/ decide_args.confidence < 40
        /\ (decide_args.text = "hello" /\ decide_args.intent = "greeting"
                /\ decide_args.confidence = 95) => decision.strategy = "rule_based"

\* C3 witness: the rule-based and the generative condition hold together
C3_Witness ==
    /\ pc = "decide"
    /\ ~FaqMatch(decide_args.text)
    /\ decide_args.confidence < 40
    /\ HistoryLen(decide_args.context) > 2
    /\ decision.strategy = "rule_based"

\* C4 as stated: intent question with confidence 0.9 and no FAQ key with
\* word-set similarity above 0.5 gives generative_ai.
C4_Original ==
    (pc = "decide" /\ decide_args.intent = "question" /\ decide_args.confidence = 90
        /\ ~SimilarKey(decide_args.text)) => decision.strategy = "generative_ai"

\* C4 amended: intent question with confidence 0.9 gives generative_ai
\* whenever the text has no FAQ match at all: no exact key, no key with
\* word-set similarity above 0.5 and no key-term substring.
C4_GenerativeWithoutFaq ==
    (pc = "decide" /\ decide_args.intent = "question" /\ decide_args.confidence = 90
        /\ ~FaqMatch(decide_args.text)) => decision.strategy = "generative_ai"

\* C4 witness: a question outside the FAQ, with no context to lean on
C4_Witness ==
    /\ pc = "decide"
    /\ decide_args.intent = "question" /\ decide_args.confidence = 90
    /\ ~FaqMatch(decide_args.text)
    /\ ~DictTruthy(decide_args.context)
    /\ decision.strategy = "generative_ai"

\* C5: a text equal to an FAQ key after lower-casing and trimming is decided
\* as faq with confidence 0.95 and that key's answer, for every intent,
\* confidence, sentiment and context.
C5_ExactKeyAnswer ==
    pc = "decide" =>
        \A i \in 1..Len(FAQ_DATABASE) :
            FAQ_DATABASE[i][1] = Strip(Lower(decide_args.text)) =>
                /\ decision.strategy = "faq"
                /\ decision.confidence = <<95, 100>>
                /\ decision.faq_answer = FAQ_DATABASE[i][2]

\* C5 witness: 'pm india' in capitals with blanks around it, under an intent
\* and confidence that the rule-based step would take
C5_Witness ==
    /\ pc = "decide"
    /\ decide_args.text = " PM India "
    /\ decide_args.intent = "goodbye" /\ decide_args.confidence = 95
    /\ decision.strategy = "faq"
    /\ decision.faq_answer = "Narendra Modi is the Prime Minister of India."

(***************************************************************************)
(* Claims on the learning layer                                            *)
(***************************************************************************)
\* the records of pattern_discoveries for a (pattern, intent) pair
RecordsOf(discoveries, pattern, intent) ==
    {i \in 1..Len(discoveries) :
        discoveries[i].pattern = pattern /\ discoveries[i].intent = intent}

\* C6: after any number of learn_from_conversation calls from an empty
\* corpus, successful_patterns holds at most 50 and failed_patterns at most
\* 20 entries per intent, response_feedback at most 500, pattern_discoveries
\* at most 200 and model_performance_history at most 90.
C6_BoundedLists ==
    /\ \A intent \in DOMAIN learning_data.intent_improvements :
        /\ Len(learning_data.intent_improvements[intent].successful_patterns) <= 50
        /\ Len(learning_data.intent_improvements[intent].failed_patterns) <= 20
    /\ Len(learning_data.response_feedback) <= 500
    /\ Len(learning_data.pattern_discoveries) <= 200
    /\ Len(learning_data.model_performance_history) <= 90

\* C6 witness: more than 500 calls over more than 90 days have been made and
\* every list stands at its bound
C6_Witness ==
    /\ pc = "learn"
    /\ learn_calls > 500 /\ today > 91
    /\ Len(learning_data.response_feedback) = 500
    /\ Len(learning_data.pattern_discoveries) = 200
    /\ Len(learning_data.model_performance_history) = 90
    /\ \E intent \in DOMAIN learning_data.intent_improvements :
        /\ Len(learning_data.intent_improvements[intent].successful_patterns) = 50
        /\ Len(learning_data.intent_improvements[intent].failed_patterns) = 20

\* C7 as stated: in every learn_from_conversation call, each pattern of the
\* message that had no record for the intent has one with frequency 1 when
\* the call ends, and each record it had (and still has) is raised by 1.
C7_Original ==
    [][pc' = "learn" =>
        \A pattern \in SeqToSet(extract_patterns(learn_args'.user_message)) :
            LET before == RecordsOf(learning_data.pattern_discoveries, pattern,
                                    learn_args'.intent)
                after == RecordsOf(learning_data'.pattern_discoveries, pattern,
                                   learn_args'.intent)
            IN  /\ before = {} =>
                    /\ after # {}
                    /\ \A j \in after : learning_data'.pattern_discoveries[j].frequency = 1
                /\ \A i \in before, j \in after :
                    learning_data'.pattern_discoveries[j].frequency =
                        learning_data.pattern_discoveries[i].frequency + 1]_vars

\* C8: pattern_discoveries never holds two records with the same
\* (pattern, intent) pair.
C8_UniquePairs ==
    \A i, j \in 1..Len(learning_data.pattern_discoveries) :
        (/\ learning_data.pattern_discoveries[i].pattern
                = learning_data.pattern_discoveries[j].pattern
         /\ learning_data.pattern_discoveries[i].intent
                = learning_data.pattern_discoveries[j].intent) => i = j

\* C8 witness: the last message repeats a word, and a pair whose record was
\* evicted has a record again
C8_Witness ==
    /\ pc = "learn"
    /\ LET patterns == extract_patterns(learn_args.user_message)
       IN  Cardinality(SeqToSet(patterns)) < Len(patterns)
    /\ \E i \in 1..Len(learning_data.pattern_discoveries) :
        /\ <<learning_data.pattern_discoveries[i].pattern,
             learning_data.pattern_discoveries[i].intent>> \in evicted_pairs
        /\ learning_data.pattern_discoveries[i].intent = learn_args.intent
        /\ learning_data.pattern_discoveries[i].pattern
                \in SeqToSet(extract_patterns(learn_args.user_message))

\* C9: after every learn_from_conversation call each daily snapshot's
\* overall_accuracy is 100 * (sum of successful) / (sum of total) over its
\* intents, 0 when that total is 0, and no two snapshots share a date.
C9_SnapshotAccuracy ==
    \A i \in 1..Len(learning_data.model_performance_history) :
        LET record == learning_data.model_performance_history[i]
            perf == record.intent_performance
            total == SumField(perf, DOMAIN perf, "total")
            successful == SumField(perf, DOMAIN perf, "successful")
        IN  /\ total > 0 => record.overall_accuracy[1] * total
                                = 100 * successful * record.overall_accuracy[2]
            /\ total = 0 => record.overall_accuracy[1] = 0
            /\ \A j \in 1..Len(learning_data.model_performance_history) :
                learning_data.model_performance_history[j].date = record.date => j = i

\* C9 witness: two dates, and a day on which two intents were seen, one
\* turn failed and one succeeded
C9_Witness ==
    /\ pc = "learn"
    /\ Len(learning_data.model_performance_history) >= 2
    /\ \E i \in 1..Len(learning_data.model_performance_history) :
        LET perf == learning_data.model_performance_history[i].intent_performance
        IN  /\ Cardinality(DOMAIN perf) >= 2
            /\ \E a, b \in DOMAIN perf :
                /\ perf[a].successful = 0 /\ perf[a].total > 0
                /\ perf[b].successful > 0

(***************************************************************************)
(* Claims on the message pipeline                                          *)
(***************************************************************************)
\* no generation call gave a text: the service has no key, or the call
\* timed out, failed or returned nothing
AllGenerationFailed(api) ==
    /\ ~api.openrouter_key \/ ~Truthy(api.openrouter)
    /\ ~api.huggingface_key \/ ~Truthy(api.huggingface)

\* C10 as stated: when the decision is generative_ai and every generation
\* call fails, process_message returns a response whose strategy is fallback
\* or rule_based.
C10_Original ==
    (/\ pc = "turn"
     /\ turn.decision.strategy = "generative_ai"
     /\ AllGenerationFailed(turn.env.api)) =>
        /\ "text" \in DOMAIN response
        /\ response.strategy \in {"fallback", "rule_based"}

\* C10 amended: when the decision is generative_ai and every generation call
\* fails, process_message returns a response without raising; its strategy
\* is enhanced_rule_based with confidence 0.85 and success true, or
\* error_fallback with success false when a later stage of the turn raised.
C10_GenerationFailure ==
    (/\ pc = "turn"
     /\ turn.decision.strategy = "generative_ai"
     /\ AllGenerationFailed(turn.env.api)) =>
        /\ "text" \in DOMAIN response
        /\ turn.raised = None =>
            /\ response.strategy = "enhanced_rule_based"
            /\ response.confidence = 85
            /\ response.success
        /\ turn.raised # None =>
            /\ response.strategy = "error_fallback"
            /\ ~response.success

\* C10 witness: both services are configured and both calls time out in a
\* turn decided as generative_ai, and the turn completes
C10_Witness ==
    /\ pc = "turn"
    /\ turn.decision.strategy = "generative_ai"
    /\ turn.env.api.openrouter_key /\ turn.env.api.huggingface_key
    /\ AllGenerationFailed(turn.env.api)
    /\ turn.raised = None
    /\ response.strategy = "enhanced_rule_based"

\* C11: when a stage of process_message raises, the call still returns one
\* response: the apology, with intent error, strategy error_fallback and
\* success false, carrying the text of the exception.
C11_ErrorResponse ==
    (pc = "turn" /\ turn.raised # None) =>
        /\ response.text = "I apologize, but I'm having trouble processing your message right now. Could you please try rephrasing?"
        /\ response.intent = "error"
        /\ response.intent_confidence = 0
        /\ response.strategy = "error_fallback"
        /\ response.success = FALSE
        /\ "error" \in DOMAIN response

\* analytics tracking has raised KeyError after a restart, and the caller
\* got the apology
C11_Witness ==
    /\ pc = "turn"
    /\ turn.raised = "track"
    /\ restarts = 1
    /\ response.intent = "error"
    /\ response.error = "'" \o turn.intent \o "'"

\* the turn of the last process_message call is the last conversation the
\* storage layer holds for its user
Recorded ==
    /\ turn.user_id \in DOMAIN chat_data
    /\ LET conversations == chat_data[turn.user_id].conversations
       IN  /\ conversations # <<>>
           /\ conversations[Len(conversations)].user_message = turn.user_message
           /\ conversations[Len(conversations)].timestamp = today

\* C12: every turn ends, with the final response or with the apology, and
\* in both cases the storage layer has recorded it.
C12_Original ==
    pc = "turn" =>
        /\ "text" \in DOMAIN response
        /\ Recorded

\* the turns the request threads have finished
Finished == {t \in Threads : workers[t].pc = "done"}

\* the messages counted in the profiles of all users
CountedMessages ==
    SumField([u \in DOMAIN chat_data |-> chat_data[u].user_profile], DOMAIN chat_data,
             "total_messages")

\* the messages counted by analytics for all users
TrackedMessages ==
    SumField(analytics_data.user_interactions, DOMAIN analytics_data.user_interactions,
             "total_messages")

\* the turns counted in today's snapshot, the record a later call finds
SnapshotTotal ==
    LET history == learning_data.model_performance_history
        at == TodayIndex(history, today)
    IN  IF at = 0 THEN 0
        ELSE SumField(history[at].intent_performance,
                      DOMAIN history[at].intent_performance, "total")

\* C13: concurrent turns do not lose updates: when every request thread has
\* finished its turn, total_conversations, the users' message counts and
\* the totals of today's snapshot have each grown by the number of turns.
C13_Original ==
    Finished = Threads =>
        /\ analytics_data.total_conversations = MaxThreads
        /\ CountedMessages = MaxThreads
        /\ TrackedMessages = MaxThreads
        /\ SnapshotTotal = MaxThreads

\* C14: a turn whose sentiment scorer raises, or whose intent model raises
\* when it is asked (no rule matched, so the intent is the default one),
\* goes on with intent general and confidence 0.5: the decision engine runs
\* and the response is not the error response.
C14_Original ==
    pc = "turn" =>
        /\ turn.env.textblob.raised =>
            /\ "decide" \in SeqToSet(turn.stages)
            /\ response.intent # "error"
        /\ (turn.env.ml.raised /\ turn.intent = "general" /\ ~turn.env.textblob.raised) =>
            /\ "decide" \in SeqToSet(turn.stages)
            /\ response.intent = "general"
            /\ response.intent_confidence = 50

\* the strategies a response of the system can carry
ResponseStrategies ==
    {"faq", "rule_based", "generative_ai", "fallback", "enhanced_rule_based"}

\* the strategies with a record of success or failure
Attempted ==
    StrategiesOf(analytics_data.response_success)
        \cup StrategiesOf(analytics_data.failed_responses)

\* C15 as stated: get_response_effectiveness does not fail, reports the
\* overall rate 0 when nothing is recorded, and reports every strategy
\* without attempts with success rate 0.
C15_Original ==
    report.op = "get_response_effectiveness" =>
        /\ ~report.result.raised
        /\ Attempted = {} => RatEQ(report.result.overall_success_rate, <<0, 1>>)
        /\ \A strategy \in ResponseStrategies \ Attempted :
            /\ strategy \in DOMAIN report.result.strategy_effectiveness
            /\ RatEQ(report.result.strategy_effectiveness[strategy].success_rate, <<0, 1>>)

\* C15: get_response_effectiveness never divides by zero: no exception is
\* caught, every rate it reports has a positive divisor, the overall rate
\* is 0 when nothing is recorded, and a strategy without attempts has no
\* entry in the report.
C15_NoZeroDivision ==
    report.op = "get_response_effectiveness" =>
        /\ ~report.result.raised
        /\ report.result.overall_success_rate[2] > 0
        /\ Attempted = {} => RatEQ(report.result.overall_success_rate, <<0, 1>>)
        /\ DOMAIN report.result.strategy_effectiveness = Attempted
        /\ \A strategy \in Attempted :
            /\ report.result.strategy_effectiveness[strategy].total_attempts > 0
            /\ report.result.strategy_effectiveness[strategy].success_rate[2] > 0

\* the report is asked of a fresh system, with nothing recorded
C15_Witness ==
    /\ report.op = "get_response_effectiveness"
    /\ turns = 0
    /\ Attempted = {}
    /\ report.result.strategy_effectiveness = EmptyDict
    /\ report.result.total_responses_generated = 0

\* the conversations the storage layer holds for a user
ConversationsOf(chat, user_id) ==
    IF user_id \in DOMAIN chat THEN chat[user_id].conversations ELSE <<>>

\* the responses recorded by analytics, successes and failures
ResponsesRecorded(analytics) ==
    Len(analytics.response_success) + Len(analytics.failed_responses)

\* the turns counted in the performance history of the learning layer
TurnsLearned(ld) ==
    LET history == ld.model_performance_history
        totals == [i \in 1..Len(history) |->
                    [total |-> SumField(history[i].intent_performance,
                                        DOMAIN history[i].intent_performance, "total")]]
    IN  SumField(totals, 1..Len(history), "total")

\* the effects of one completed process_message call, from the state
\* before it to the state after it
CompletedTurn ==
    /\ turn'.stages = <<"preprocess", "nlp", "sentiment", "decide", "generate",
                        "store", "track", "learn", "context">>
    \* the decision was given the context of the prior turns
    /\ turn'.context = get_context(context_memory, turn'.user_id)
    \* one conversation stored, holding what the earlier layers produced
    /\ ConversationsOf(chat_data', turn'.user_id) =
            Append(ConversationsOf(chat_data, turn'.user_id),
                   [timestamp |-> today', user_message |-> turn'.user_message,
                    bot_response |-> response'.text, intent |-> response'.intent,
                    sentiment |-> response'.sentiment, success |-> response'.success])
    \* one conversation tracked, with the strategy of the response
    /\ analytics_data'.total_conversations = analytics_data.total_conversations + 1
    /\ ResponsesRecorded(analytics_data') = ResponsesRecorded(analytics_data) + 1
    /\ Len(analytics_data'.sentiment_records) = Len(analytics_data.sentiment_records) + 1
    \* one conversation learned from
    /\ learning_data'.response_feedback =
            Append(learning_data.response_feedback,
                   [timestamp |-> today', strategy |-> response'.strategy,
                    success |-> response'.success,
                    user_sentiment |-> response'.sentiment.sentiment,
                    response_confidence |-> response'.confidence])
    /\ TurnsLearned(learning_data') = TurnsLearned(learning_data) + 1
    \* the context updated last, with this turn after the prior ones
    /\ context_memory'[turn'.user_id].history =
            Append(turn'.context.history,
                   [user |-> turn'.user_message, bot |-> response'.text,
                    intent |-> response'.intent, timestamp |-> None])
    /\ \A other \in DOMAIN context_memory \ {turn'.user_id} :
            context_memory'[other] = context_memory[other]

\* C16: a process_message call that completes without exception runs every
\* stage once and in order: the conversation stored, tracked and learned
\* from is the one the earlier stages produced, each store grows by one
\* turn, and the context is updated last, so the decision was given the
\* prior turns only.
C16_OncePerTurnInOrder ==
    [][(turns' = turns + 1 /\ turn'.raised = None) => CompletedTurn]_vars

\* a user's second completed turn: its decision was given the first one
C16_Witness ==
    /\ pc = "turn"
    /\ turn.raised = None
    /\ turns = 2
    /\ Len(turn.context.history) = 1
    /\ Len(context_memory[turn.user_id].history) = 2
    /\ Len(chat_data[turn.user_id].conversations) = 2

\* the file holds the whole corpus ld
Written(file, ld) == file = [valid |-> TRUE, data |-> ld]

\* the last feedback record of the corpus is the one of the call
FeedbackOf(ld, call, now) ==
    /\ ld.response_feedback # <<>>
    /\ ld.response_feedback[Len(ld.response_feedback)] =
            [timestamp |-> now, strategy |-> call.bot_response.strategy,
             success |-> call.success, user_sentiment |-> call.sentiment.sentiment,
             response_confidence |-> call.bot_response.confidence]

\* C17: every learn_from_conversation call and every
\* generate_optimization_suggestions call completes and leaves its update in
\* the corpus in memory (the feedback record of the turn, the list of
\* suggestions); when its write succeeds the file holds that whole corpus, and
\* when its write fails the file is the old one or a broken one
C17_WriteThrough ==
    [][/\ learn_calls' = learn_calls + 1 =>
            /\ pc' = "learn"
            /\ FeedbackOf(learning_data', learn_args', today')
            /\ IF learn_args'.write_ok THEN Written(learning_file', learning_data')
               ELSE learning_file' \in {learning_file,
                                        [valid |-> FALSE, data |-> EmptyLearningData]}
       /\ (learn_calls' = learn_calls /\ pc' = "suggest") =>
            /\ report'.op = "generate_optimization_suggestions"
            /\ learning_data'.optimization_suggestions = report'.result
            /\ IF report'.write_ok THEN Written(learning_file', learning_data')
               ELSE learning_file' \in {learning_file,
                                        [valid |-> FALSE, data |-> EmptyLearningData]}]_vars

\* a generate_optimization_suggestions call whose write failed: the file still
\* holds an older corpus, the corpus in memory has the new suggestions
C17_Witness ==
    /\ pc = "suggest"
    /\ ~report.write_ok
    /\ report.result # <<>>
    /\ learning_data.optimization_suggestions = report.result
    /\ learning_file.valid
    /\ learning_file.data # learning_data
    /\ learn_calls > 0

(***************************************************************************)
(* Claims on the intent classifier                                         *)
(***************************************************************************)
\* the text begins with the prefix
StartsWith(s, prefix) == Len(s) >= Len(prefix) /\ SubSeq(s, 1, Len(prefix)) = prefix

\* C18 as stated: a message that begins with a question starter is
\* classified as a question whatever topic follows, and greeting is returned
\* only for the plain greetings.  The code answers greeting for 'tell me
\* about machine learning': 'hi' occurs in 'machine'.
C18_Original ==
    report.op = "classify_intent" =>
        /\ (\E starter \in QuestionStarters : StartsWith(report.text, starter))
                => report.result[1] = "question"
        /\ report.result[1] = "greeting" => report.text \in PlainGreetings

(***************************************************************************)
(* Claims on the optimization suggestions                                  *)
(***************************************************************************)
\* the suggestions returned hold one with this action for the target
Suggests(suggestions, priority, action, target) ==
    \E i \in 1..Len(suggestions) :
        /\ suggestions[i].priority = priority
        /\ suggestions[i].action = action
        /\ suggestions[i].target = target

RecentFeedback == LastN(learning_data.response_feedback, MAX_RECENT_FEEDBACK)

\* the strategies some feedback record of the corpus names
FeedbackStrategies ==
    {learning_data.response_feedback[i].strategy :
        i \in 1..Len(learning_data.response_feedback)}

\* the samples of a strategy among the recent records, and the successful ones
Samples(strategy) ==
    Cardinality({i \in 1..Len(RecentFeedback) : RecentFeedback[i].strategy = strategy})

Successes(strategy) ==
    Cardinality({i \in 1..Len(RecentFeedback) :
        RecentFeedback[i].strategy = strategy /\ RecentFeedback[i].success})

\* the success rate of the strategy is below, or above, so many percent
RateBelow(strategy, percent) == Successes(strategy) * 100 < percent * Samples(strategy)

RateAbove(strategy, percent) == Successes(strategy) * 100 > percent * Samples(strategy)

\* C20 as stated: over the most recent 100 feedback records, a strategy with
\* at least 10 samples gets a high-priority improve suggestion when its
\* success rate is below 60% and a low-priority expand suggestion when it is
\* above 90%; a strategy with fewer than 10 samples gets neither.
C20_Original ==
    pc = "suggest" =>
        \A strategy \in FeedbackStrategies :
            /\ (Samples(strategy) >= 10 /\ RateBelow(strategy, 60))
                    => Suggests(report.result, "high", "improve_response_strategy", strategy)
            /\ (Samples(strategy) >= 10 /\ RateAbove(strategy, 90))
                    => Suggests(report.result, "low", "expand_strategy_usage", strategy)
            /\ Samples(strategy) < 10
                    => /\ ~Suggests(report.result, "high", "improve_response_strategy", strategy)
                       /\ ~Suggests(report.result, "low", "expand_strategy_usage", strategy)

\* C20: over the most recent 100 feedback records, a strategy with more
\* than 10 samples gets a high-priority improve suggestion when its success
\* rate is below 60% and a low-priority expand suggestion when it is above
\* 90%; a strategy with 10 samples or fewer gets neither.
C20_MoreThanTen ==
    pc = "suggest" =>
        \A strategy \in FeedbackStrategies :
            /\ (Samples(strategy) > 10 /\ RateBelow(strategy, 60))
                    => Suggests(report.result, "high", "improve_response_strategy", strategy)
            /\ (Samples(strategy) > 10 /\ RateAbove(strategy, 90))
                    => Suggests(report.result, "low", "expand_strategy_usage", strategy)
            /\ Samples(strategy) <= 10
                    => /\ ~Suggests(report.result, "high", "improve_response_strategy", strategy)
                       /\ ~Suggests(report.result, "low", "expand_strategy_usage", strategy)

\* a strategy with 11 samples, all failures, got the improve suggestion
C20_Witness ==
    /\ pc = "suggest"
    /\ Samples("rule_based") = 11
    /\ RateBelow("rule_based", 60)
    /\ Suggests(report.result, "high", "improve_response_strategy", "rule_based")

(***************************************************************************)
(* Claims on the retraining of the classifier                              *)
(***************************************************************************)
\* C21 as stated: improve_intent_classifier retrains the classifier on the
\* combined corpus (the successful patterns of all intents and the
\* configured examples) exactly when the corpus has more than 50 examples,
\* returns true when the training succeeds and false when it raises; with
\* 50 examples or fewer it returns false and does not retrain.  The code
\* counts the corpus and then fits the model on the built-in examples of
\* train_intent_model: no learned pattern reaches the classifier.
C21_Original ==
    pc = "improve" =>
        /\ report.returned.retrained <=> Len(combined_corpus(learning_data)) > 50
        /\ report.returned.result <=> (report.returned.retrained /\ ~report.train_raises)
        /\ report.returned.result
                => report.returned.fitted_on = combined_corpus(learning_data)

(***************************************************************************)
(* Claims on the analytics aggregations                                    *)
(***************************************************************************)
\* no conversation, no analytics record and no user is stored
EmptyStore == chat_data = EmptyDict /\ analytics_data = EmptyAnalyticsData

\* C22 as stated: on an empty store every aggregation of the dashboard
\* (conversation stats, intent analytics, sentiment trends, response
\* effectiveness, engagement metrics, insights) is zeroed or empty and none
\* raises.  The code reports two insights on an empty store: a low success
\* rate and a low retention, both computed from the defaults.
C22_Original ==
    (report.op = "get_dashboard_data" /\ EmptyStore) =>
        /\ report.result.conversation_stats =
                [total_conversations |-> 0, unique_users |-> 0, daily_activity |-> EmptyDict]
        /\ report.result.intent_analytics =
                [intent_breakdown |-> EmptyDict, most_common_intent |-> None,
                 total_intents_processed |-> 0]
        /\ report.result.sentiment_trends =
                [sentiment_distribution |-> EmptyDict, daily_sentiment_trends |-> EmptyDict,
                 top_emotions |-> EmptyDict, total_analyzed |-> 0]
        /\ ~report.result.response_effectiveness.raised
        /\ report.result.response_effectiveness.strategy_effectiveness = EmptyDict
        /\ report.result.response_effectiveness.total_responses_generated = 0
        /\ report.result.user_engagement = EmptyDict
        /\ report.result.insights = <<>>

(***************************************************************************)
(* Claims on the outcome of a turn                                         *)
(***************************************************************************)
\* C23: every turn process_message completes without an exception is a
\* success, whatever strategy was decided: the response says so, and no
\* conversation stored, no response tracked and no feedback learned from a
\* turn is a failure; a failure in the corpus comes from process_feedback.
C23_AlwaysSuccess ==
    /\ (pc = "turn" /\ turn.raised = None) => response.success
    /\ \A user_id \in DOMAIN chat_data : \A i \in 1..Len(chat_data[user_id].conversations) :
            chat_data[user_id].conversations[i].success
    /\ analytics_data.failed_responses = <<>>
    /\ \A i \in 1..Len(learning_data.response_feedback) :
            \/ learning_data.response_feedback[i].success
            \/ learning_data.response_feedback[i].strategy = "feedback"

\* a completed turn answered by the fallback generator, with the lowest of
\* the fixed confidences, and recorded as a success
C23_Witness ==
    /\ pc = "turn"
    /\ turn.raised = None
    /\ turn.decision.strategy = "fallback"
    /\ response.confidence = 60
    /\ response.success
    /\ learning_data.response_feedback # <<>>
    /\ learning_data.response_feedback[Len(learning_data.response_feedback)].success

\* C24: a turn that ends in the error fallback response has no partial
\* effects: chat history, analytics data and learning corpus are what they
\* were before the turn.
C24_Original ==
    [][(turns' = turns + 1 /\ response'.strategy = "error_fallback") =>
            /\ chat_data' = chat_data
            /\ analytics_data' = analytics_data
            /\ learning_data' = learning_data]_vars

\* the turns a user's conversation context holds in memory
Remembered(memory, user_id) ==
    IF user_id \in DOMAIN memory THEN Len(memory[user_id].history) ELSE 0

\* the strategy decided for the turn just made, None when the turn raised
\* before the decision engine was asked
Decided(t) ==
    IF "decision" \in DOMAIN t THEN t.decision.strategy ELSE None

\* C25: once the context of a user holds more than 2 turns in memory, a
\* message of that user the decision engine is asked about gets faq,
\* rule_based or generative_ai, never fallback, and the context still holds
\* more than 2 turns afterwards.
C25_NoFallbackInLongChat ==
    [][(/\ turns' = turns + 1
        /\ Remembered(context_memory, turn'.user_id) > 2) =>
            /\ Decided(turn') \in {"faq", "rule_based", "generative_ai", None}
            /\ Decided(turn') = None => turn'.raised = "sentiment"
            /\ Remembered(context_memory', turn'.user_id) > 2]_vars

\* the fourth turn of a conversation: a message that was answered by the
\* fallback at first is now given to the generative strategy
C25_Witness ==
    /\ pc = "turn"
    /\ turn.raised = None
    /\ turn.user_message = "python"
    /\ Len(turn.context.history) > 2
    /\ turn.decision.strategy = "generative_ai"
    /\ \E i \in 1..Len(turn.context.history) :
            /\ turn.context.history[i].user = "python"
            /\ turn.context.history[i].intent = turn.intent
    /\ Remembered(context_memory, turn.user_id) = Len(turn.context.history) + 1

\* the suggestions of the last query that ask to use an intent as a template
TemplateSuggestions ==
    {i \in 1..Len(report.result) :
        \/ report.result[i].action = "use_as_template"
        \/ report.result[i].type = "intent_optimization"}

\* C26: from an empty corpus no intent ever holds more than 50 successful
\* patterns, so generate_optimization_suggestions never returns a
\* use-as-template (intent_optimization) suggestion.
C26_NoTemplateSuggestion ==
    /\ \A intent \in DOMAIN learning_data.intent_improvements :
            Len(learning_data.intent_improvements[intent].successful_patterns)
                <= MAX_SUCCESSFUL_PATTERNS
    /\ pc = "suggest" => TemplateSuggestions = {}

\* suggestions asked for an intent that has been given more than 50
\* successful patterns and no failed one, of which the corpus holds 50
C26_Witness ==
    /\ pc = "suggest"
    /\ \E intent \in DOMAIN patterns_given :
            /\ patterns_given[intent].successful > MAX_SUCCESSFUL_PATTERNS
            /\ patterns_given[intent].failed = 0
            /\ Len(learning_data.intent_improvements[intent].successful_patterns)
                    = MAX_SUCCESSFUL_PATTERNS
    /\ TemplateSuggestions = {}

\* the counters of the analytics data agree: every conversation counted is
\* counted for one user and for one intent, and no intent has more
\* successes than conversations
CountersAgree(analytics) ==
    /\ analytics.total_conversations =
            SumField(analytics.user_interactions, DOMAIN analytics.user_interactions,
                     "total_messages")
    /\ analytics.total_conversations =
            SumField(analytics.intent_counts, DOMAIN analytics.intent_counts, "total")
    /\ \A intent \in DOMAIN analytics.intent_counts :
            analytics.intent_counts[intent].successful
                <= analytics.intent_counts[intent].total

\* C27: the counters agree on the empty analytics data, and every completed
\* turn keeps them in agreement: total_conversations is the sum of the
\* users' total_messages and the sum of the intents' totals, and no intent
\* has successful above total.
C27_CountersAgree ==
    /\ CountersAgree(EmptyAnalyticsData)
    /\ (pc = "init" => analytics_data = EmptyAnalyticsData)
    /\ [][(/\ CountersAgree(analytics_data)
            /\ turns' = turns + 1
            /\ turn'.raised = None) =>
                /\ CountersAgree(analytics_data')
                /\ analytics_data'.total_conversations
                        = analytics_data.total_conversations + 1]_vars

\* two completed turns of two users with two intents, counted in agreement
C27_Witness ==
    /\ pc = "turn"
    /\ turn.raised = None
    /\ analytics_data.total_conversations = 2
    /\ Cardinality(DOMAIN analytics_data.user_interactions) = 2
    /\ Cardinality(DOMAIN analytics_data.intent_counts) = 2
    /\ CountersAgree(analytics_data)

(***************************************************************************)
(* Claims on feedback and history                                          *)
(***************************************************************************)
\* the most recent conversation stored for a user, None when there is none
LastStored(chat, user_id) ==
    IF user_id \in DOMAIN chat /\ chat[user_id].conversations # <<>>
    THEN chat[user_id].conversations[Len(chat[user_id].conversations)]
    ELSE [user_message |-> None]

StoredFor(chat, user_id) ==
    IF user_id \in DOMAIN chat THEN chat[user_id].conversations ELSE <<>>

\* C29: get_user_history(user_id, limit) returns at most limit
\* conversations, the most recent ones in chronological order, for every
\* limit >= 0 (none for limit 0), and an empty list for an unknown user.
C29_Original ==
    report.op = "get_conversation_history" =>
        LET stored == StoredFor(chat_data, report.session_id)
            returned == report.history
        IN  /\ Len(returned) <= report.limit
            /\ Len(returned) <= Len(stored)
            /\ returned = SubSeq(stored, Len(stored) - Len(returned) + 1, Len(stored))
            /\ Len(returned) < report.limit => returned = stored
            /\ report.session_id \notin DOMAIN chat_data => returned = <<>>

(***************************************************************************)
(* Claims on the two reports of the strategies' success                    *)
(***************************************************************************)
\* the strategies the analytics data has a record of, successful or failed
RecordedStrategies(analytics) ==
    {analytics.response_success[i].strategy : i \in 1..Len(analytics.response_success)}
    \cup {analytics.failed_responses[i].strategy : i \in 1..Len(analytics.failed_responses)}

\* C30: on the same analytics data (at most 100 success and 100 failure
\* records) get_analytics_summary and get_response_effectiveness report the
\* same success rate for every strategy, failed responses counted as
\* attempts by both.
C30_Original ==
    report.op = "get_analytics_summary" =>
        LET summary == report.result.strategy_effectiveness
            effectiveness == get_response_effectiveness(analytics_data).strategy_effectiveness
        IN  /\ Len(analytics_data.response_success) <= MAX_SUMMARY_RECORDS
            /\ Len(analytics_data.failed_responses) <= MAX_SUMMARY_RECORDS
            /\ \A strategy \in RecordedStrategies(analytics_data) :
                    /\ strategy \in DOMAIN effectiveness
                    /\ strategy \in DOMAIN summary =>
                            /\ RatEQ(summary[strategy].success_rate,
                                     effectiveness[strategy].success_rate)
                            /\ summary[strategy].total
                                    = effectiveness[strategy].total_attempts
====
